---------------------------- MODULE Spec2Model ----------------------------
(***************************************************************************)
(* claude-deck: the status reconciliation engine of package session        *)
(* (window snapshot provider, title indicator parser, session matcher,     *)
(* reconciliation engine, update applier, window-id claim helper) and the  *)
(* part of the UI event loop that drives it.                               *)
(*                                                                         *)
(* Strings are sequences of Unicode code points, so that the rune-level    *)
(* code (first rune of a title, the hex run after "--resume ", the "/" of  *)
(* a path prefix) is modelled as written.                                  *)
(***************************************************************************)
EXTENDS Integers, Sequences, FiniteSets, TLC

(***************************************************************************)
(* Bounds of the model.                                                    *)
(***************************************************************************)
\* number of tracked sessions
NSessions == 2
\* kitty window ids are 1..MaxHandle
MaxHandle == 2
\* transcript modification times are 1..MaxMtime (0: no readable transcript)
MaxMtime == 2

(***************************************************************************)
(* Program constants.                                                      *)
(***************************************************************************)
StatusIdle == 0
StatusWaiting == 1
StatusRunning == 2
Statuses == {StatusIdle, StatusWaiting, StatusRunning}

\* U+2733, the "unsaved changes" marker
UnsavedRune == 10035
\* U+2800 .. U+283F, the braille patterns block
BrailleFirst == 10240
BrailleLast == 10303

\* "--resume "
ResumeFlag == <<45, 45, 114, 101, 115, 117, 109, 101, 32>>
\* "claude"
ClaudeWord == <<99, 108, 97, 117, 100, 101>>
\* "/"
Slash == <<47>>
\* "pending-"
PendingPrefix == <<112, 101, 110, 100, 105, 110, 103, 45>>

(***************************************************************************)
(* package strings                                                         *)
(***************************************************************************)
Min(S) == CHOOSE x \in S : \A y \in S : x <= y

\* strings.HasPrefix
HasPrefix(s, p) == Len(s) >= Len(p) /\ SubSeq(s, 1, Len(p)) = p

\* strings.Index, 1-based; 0 when sub does not occur (Go: -1)
Index(s, sub) ==
    LET hits == {i \in 1..(Len(s) - Len(sub) + 1) : SubSeq(s, i, i + Len(sub) - 1) = sub}
    IN  IF hits = {} THEN 0 ELSE Min(hits)

\* strings.Contains
Contains(s, sub) == Index(s, sub) # 0

\* unicode.IsSpace on the code points the model uses (tab, LF, VT, FF, CR,
\* space, NEL, NBSP)
IsSpace(c) == c \in {9, 10, 11, 12, 13, 32, 133, 160}

\* strings.TrimSpace
TrimSpace(s) ==
    LET keep == {i \in 1..Len(s) : ~IsSpace(s[i])}
    IN  IF keep = {} THEN <<>>
        ELSE SubSeq(s, Min(keep), CHOOSE i \in keep : \A j \in keep : j <= i)

(***************************************************************************)
(* Title indicator parser                                                  *)
(***************************************************************************)
\* IsIndicatorRune without the unsaved marker
IsIndicatorRune_BrailleOnly(r) == r >= BrailleFirst /\ r <= BrailleLast

IsIndicatorRune(r) == r = UnsavedRune \/ (r >= BrailleFirst /\ r <= BrailleLast)

IsSpinnerRune(r) == r >= BrailleFirst /\ r <= BrailleLast

hasClaudeIndicator(title) ==
    IF title = <<>> THEN FALSE ELSE IsIndicatorRune(title[1])

hasSpinnerIndicator(title) ==
    IF title = <<>> THEN FALSE ELSE IsSpinnerRune(title[1])

cleanClaudeTitle(title) ==
    IF title = <<>> THEN <<>>
    ELSE TrimSpace(IF IsIndicatorRune(title[1]) THEN Tail(title) ELSE title)

(***************************************************************************)
(* Window snapshot provider.  kitty's listing is a sequence of windows     *)
(* [ID, Title, TabTitle, Cmdline, Cwd] in the order of `kitty @ ls`         *)
(* (OS windows, tabs and windows flattened; Cmdline already joined with    *)
(* " ").  A failed query is the empty listing.                             *)
(***************************************************************************)
\* IsSessionIDRune without the upper-case hex digits
IsSessionIDRune_LowerHex(c) ==
    \/ (c >= 48 /\ c <= 57)
    \/ (c >= 97 /\ c <= 102)
    \/ c = 45

IsSessionIDRune(c) ==
    \/ (c >= 48 /\ c <= 57)
    \/ (c >= 97 /\ c <= 102)
    \/ (c >= 65 /\ c <= 70)
    \/ c = 45

\* the longest prefix of rest made of [0-9a-fA-F-]
SessionIDRun(rest) ==
    LET stops == {i \in 1..Len(rest) : ~IsSessionIDRune(rest[i])}
    IN  IF stops = {} THEN rest ELSE SubSeq(rest, 1, Min(stops) - 1)

\* the session id after the first "--resume ", "" when there is none
ResumeSessionID(cmdline) ==
    LET idx == Index(cmdline, ResumeFlag)
    IN  IF idx = 0 THEN <<>>
        ELSE SessionIDRun(SubSeq(cmdline, idx + Len(ResumeFlag), Len(cmdline)))

isClaudeTab(win) ==
    \/ Contains(win.Cmdline, ClaudeWord)
    \/ hasClaudeIndicator(win.TabTitle)
    \/ hasClaudeIndicator(win.Title)

toActiveSession(win) ==
    LET title == IF win.Title = <<>> THEN win.TabTitle ELSE win.Title
    IN  [windowID    |-> win.ID,
         sessionID   |-> ResumeSessionID(win.Cmdline),
         projectPath |-> win.Cwd,
         tabTitle    |-> title,
         hasSpinner  |-> hasSpinnerIndicator(title)]

RECURSIVE SelectSeqOf(_, _, _)
\* the subsequence of seq at the positions in keep, order kept
SelectSeqOf(seq, keep, i) ==
    IF i > Len(seq) THEN <<>>
    ELSE (IF i \in keep THEN <<seq[i]>> ELSE <<>>) \o SelectSeqOf(seq, keep, i + 1)

\* SpinnerFirst that leaves the windows as kitty lists them
SpinnerFirst_AsListed(result) == result

\* sort.Slice with "spinner first, otherwise equal": for the listings of the
\* model (fewer than 12 windows) Go sorts by insertion, which keeps the
\* order of equal elements.
SpinnerFirst(result) ==
    SelectSeqOf(result, {i \in 1..Len(result) : result[i].hasSpinner}, 1)
        \o SelectSeqOf(result, {i \in 1..Len(result) : ~result[i].hasSpinner}, 1)

getKittyActiveSessions(ls) ==
    LET claude == SelectSeqOf(ls, {i \in 1..Len(ls) : isClaudeTab(ls[i])}, 1)
    IN  SpinnerFirst([i \in 1..Len(claude) |-> toActiveSession(claude[i])])

(***************************************************************************)
(* Session matcher.  A session is a record                                 *)
(*   [ClaudeSessionID, Name, Renamed, Status, KittyWindowID, ProjectPath,  *)
(*    JSONLPath, ModTime]                                                  *)
(* where ModTime stands for os.Stat(JSONLPath).ModTime(): 0 when the file  *)
(* cannot be read.  matchedWindows is the set of window ids claimed so far *)
(* in the pass.                                                            *)
(***************************************************************************)
\* the first position among hits, 0 when there is none
FirstOf(hits) == IF hits = {} THEN 0 ELSE Min(hits)

\* pathMatch by string prefix alone
pathMatch_StringPrefix(active, s) == HasPrefix(active.projectPath, s.ProjectPath)

\* whether the window's cwd is the session's project path or below it
pathMatch(active, s) ==
    \/ active.projectPath = s.ProjectPath
    \/ HasPrefix(active.projectPath, s.ProjectPath \o Slash)

\* matchStoredID without the test of matchedWindows
matchStoredID_IgnoresClaimed(s, activeSessions, matchedWindows) ==
    IF s.KittyWindowID > 0
    THEN LET i == FirstOf({k \in 1..Len(activeSessions) :
                              activeSessions[k].windowID = s.KittyWindowID})
         IN  IF i = 0 THEN 0
             ELSE IF /\ activeSessions[i].sessionID # <<>>
                     /\ activeSessions[i].sessionID # s.ClaudeSessionID THEN 0
             ELSE i
    ELSE 0

\* matchStoredID without the test of the window's --resume id
matchStoredID_IgnoresResumeID(s, activeSessions, matchedWindows) ==
    IF s.KittyWindowID > 0
    THEN LET i == FirstOf({k \in 1..Len(activeSessions) :
                              activeSessions[k].windowID = s.KittyWindowID})
         IN  IF i = 0 THEN 0
             ELSE IF activeSessions[i].windowID \in matchedWindows THEN 0
             ELSE i
    ELSE 0

\* 1. the window with the stored id, unless it is already matched or it
\*    carries the session id of another session; 0 when this tier misses
matchStoredID(s, activeSessions, matchedWindows) ==
    IF s.KittyWindowID > 0
    THEN LET i == FirstOf({k \in 1..Len(activeSessions) :
                              activeSessions[k].windowID = s.KittyWindowID})
         IN  IF i = 0 THEN 0
             ELSE IF activeSessions[i].windowID \in matchedWindows THEN 0
             ELSE IF /\ activeSessions[i].sessionID # <<>>
                     /\ activeSessions[i].sessionID # s.ClaudeSessionID THEN 0
             ELSE i
    ELSE 0

\* matchResumeID that stops at the first window with the session's id,
\* matched already or not
matchResumeID_StopsAtClaimed(s, activeSessions, matchedWindows) ==
    LET i == FirstOf({k \in 1..Len(activeSessions) :
                         /\ activeSessions[k].sessionID # <<>>
                         /\ activeSessions[k].sessionID = s.ClaudeSessionID})
    IN  IF i # 0 /\ activeSessions[i].windowID \in matchedWindows THEN 0 ELSE i

\* 2. the first unmatched window whose --resume id is the session's
matchResumeID(s, activeSessions, matchedWindows) ==
    FirstOf({k \in 1..Len(activeSessions) :
                /\ activeSessions[k].sessionID # <<>>
                /\ activeSessions[k].sessionID = s.ClaudeSessionID
                /\ activeSessions[k].windowID \notin matchedWindows})

\* matchProjectPath that takes windows with a --resume id too
matchProjectPath_ResumedToo(s, activeSessions, matchedWindows) ==
    IF s.JSONLPath # <<>>
    THEN FirstOf({k \in 1..Len(activeSessions) :
                     /\ activeSessions[k].windowID \notin matchedWindows
                     /\ pathMatch(activeSessions[k], s)})
    ELSE 0

\* 3. the first unmatched window without a --resume id at or under the
\*    session's project path; only for sessions with a JSONL path
matchProjectPath(s, activeSessions, matchedWindows) ==
    IF s.JSONLPath # <<>>
    THEN FirstOf({k \in 1..Len(activeSessions) :
                     /\ activeSessions[k].sessionID = <<>>
                     /\ activeSessions[k].windowID \notin matchedWindows
                     /\ pathMatch(activeSessions[k], s)})
    ELSE 0

\* detectSessionStatus that looks for the --resume id only for sessions
\* without a stored window id
detectSessionStatus_ResumeOnlyWithoutStored(s, activeSessions, matchedWindows) ==
    LET i1 == matchStoredID(s, activeSessions, matchedWindows)
        i2 == IF i1 # 0 \/ s.KittyWindowID > 0 THEN 0
              ELSE matchResumeID(s, activeSessions, matchedWindows)
        i3 == IF i1 # 0 \/ i2 # 0 THEN 0
              ELSE matchProjectPath(s, activeSessions, matchedWindows)
        i  == IF i1 # 0 THEN i1 ELSE IF i2 # 0 THEN i2 ELSE i3
    IN  IF i = 0
        THEN [status |-> StatusIdle, tabTitle |-> <<>>, windowID |-> 0,
              strongMatch |-> FALSE, matchedWindows |-> matchedWindows, tier |-> 0]
        ELSE [status |-> IF activeSessions[i].hasSpinner THEN StatusRunning
                         ELSE StatusWaiting,
              tabTitle |-> activeSessions[i].tabTitle,
              windowID |-> activeSessions[i].windowID,
              strongMatch |-> (i1 # 0 \/ i2 # 0),
              matchedWindows |-> matchedWindows \cup {activeSessions[i].windowID},
              tier |-> IF i1 # 0 THEN 1 ELSE IF i2 # 0 THEN 2 ELSE 3]

\* detectSessionStatus that takes a stored window id for a live window
\* when no window matches
detectSessionStatus_TrustsStoredID(s, activeSessions, matchedWindows) ==
    LET i1 == matchStoredID(s, activeSessions, matchedWindows)
        i2 == IF i1 # 0 THEN 0 ELSE matchResumeID(s, activeSessions, matchedWindows)
        i3 == IF i1 # 0 \/ i2 # 0 THEN 0
              ELSE matchProjectPath(s, activeSessions, matchedWindows)
        i  == IF i1 # 0 THEN i1 ELSE IF i2 # 0 THEN i2 ELSE i3
    IN  IF i = 0
        THEN [status |-> IF s.KittyWindowID > 0 THEN StatusWaiting ELSE StatusIdle,
              tabTitle |-> <<>>, windowID |-> 0,
              strongMatch |-> FALSE, matchedWindows |-> matchedWindows, tier |-> 0]
        ELSE [status |-> IF activeSessions[i].hasSpinner THEN StatusRunning
                         ELSE StatusWaiting,
              tabTitle |-> activeSessions[i].tabTitle,
              windowID |-> activeSessions[i].windowID,
              strongMatch |-> (i1 # 0 \/ i2 # 0),
              matchedWindows |-> matchedWindows \cup {activeSessions[i].windowID},
              tier |-> IF i1 # 0 THEN 1 ELSE IF i2 # 0 THEN 2 ELSE 3]

\* detectSessionStatus with a matched window that shows no spinner taken
\* for no sign of life
detectSessionStatus_IdleWithoutSpinner(s, activeSessions, matchedWindows) ==
    LET i1 == matchStoredID(s, activeSessions, matchedWindows)
        i2 == IF i1 # 0 THEN 0 ELSE matchResumeID(s, activeSessions, matchedWindows)
        i3 == IF i1 # 0 \/ i2 # 0 THEN 0
              ELSE matchProjectPath(s, activeSessions, matchedWindows)
        i  == IF i1 # 0 THEN i1 ELSE IF i2 # 0 THEN i2 ELSE i3
    IN  IF i = 0
        THEN [status |-> StatusIdle, tabTitle |-> <<>>, windowID |-> 0,
              strongMatch |-> FALSE, matchedWindows |-> matchedWindows, tier |-> 0]
        ELSE [status |-> IF activeSessions[i].hasSpinner THEN StatusRunning
                         ELSE StatusIdle,
              tabTitle |-> activeSessions[i].tabTitle,
              windowID |-> activeSessions[i].windowID,
              strongMatch |-> (i1 # 0 \/ i2 # 0),
              matchedWindows |-> matchedWindows \cup {activeSessions[i].windowID},
              tier |-> IF i1 # 0 THEN 1 ELSE IF i2 # 0 THEN 2 ELSE 3]

\* Returns the Go results (status, tabTitle, windowID, strongMatch), the
\* updated matchedWindows, and tier: which of the three methods matched (0:
\* none).
detectSessionStatus(s, activeSessions, matchedWindows) ==
    LET i1 == matchStoredID(s, activeSessions, matchedWindows)
        i2 == IF i1 # 0 THEN 0 ELSE matchResumeID(s, activeSessions, matchedWindows)
        i3 == IF i1 # 0 \/ i2 # 0 THEN 0
              ELSE matchProjectPath(s, activeSessions, matchedWindows)
        i  == IF i1 # 0 THEN i1 ELSE IF i2 # 0 THEN i2 ELSE i3
    IN  IF i = 0
        THEN [status |-> StatusIdle, tabTitle |-> <<>>, windowID |-> 0,
              strongMatch |-> FALSE, matchedWindows |-> matchedWindows, tier |-> 0]
        ELSE [status |-> IF activeSessions[i].hasSpinner THEN StatusRunning
                         ELSE StatusWaiting,
              tabTitle |-> activeSessions[i].tabTitle,
              windowID |-> activeSessions[i].windowID,
              strongMatch |-> (i1 # 0 \/ i2 # 0),
              matchedWindows |-> matchedWindows \cup {activeSessions[i].windowID},
              tier |-> IF i1 # 0 THEN 1 ELSE IF i2 # 0 THEN 2 ELSE 3]

(***************************************************************************)
(* Reconciliation engine                                                   *)
(***************************************************************************)
\* the modification time the pass sorts a session by (zero time: 0)
mtimeOf(s) == IF s.JSONLPath # <<>> THEN s.ModTime ELSE 0

Swap(seq, i, j) == [seq EXCEPT ![i] = seq[j], ![j] = seq[i]]

RECURSIVE sortInner(_, _, _)
sortInner(sortable, i, j) ==
    IF j > Len(sortable) THEN sortable
    ELSE sortInner(IF mtimeOf(sortable[j]) > mtimeOf(sortable[i])
                   THEN Swap(sortable, i, j) ELSE sortable, i, j + 1)

\* sortOuter that makes the pass for the first position only
sortOuter_FirstOnly(sortable, i) ==
    IF Len(sortable) < 2 THEN sortable ELSE sortInner(sortable, 1, 2)

RECURSIVE sortOuter(_, _)
sortOuter(sortable, i) ==
    IF i > Len(sortable) - 1 THEN sortable
    ELSE sortOuter(sortInner(sortable, i, i + 1), i + 1)

\* sortByMtime that leaves the sessions in the order given
sortByMtime_AsGiven(sessions) == sessions

\* the sessions in the order the pass processes them
sortByMtime(sessions) == sortOuter(sessions, 1)

\* updateWindowID that keeps the stored window id whatever was matched
updateWindowID_KeepsStored(s, d, aggressive) == s.KittyWindowID

\* updateWindowID with the match's window stored whatever its strength
updateWindowID_StoresWeak(s, d, aggressive) == d.windowID

\* the window id the update carries
updateWindowID(s, d, aggressive) ==
    IF (d.strongMatch \/ aggressive) /\ d.windowID # s.KittyWindowID THEN d.windowID
    ELSE IF ~d.strongMatch /\ ~aggressive THEN s.KittyWindowID
    ELSE d.windowID

\* updateName that takes the title of a weak match too
updateName_WeakToo(s, d, aggressive) ==
    IF d.tabTitle # <<>> /\ ~s.Renamed
    THEN LET cleanTitle == cleanClaudeTitle(d.tabTitle)
         IN  IF cleanTitle # <<>> /\ cleanTitle # s.Name THEN cleanTitle ELSE <<>>
    ELSE <<>>

\* updateName without the test of Renamed
updateName_IgnoresLock(s, d, aggressive) ==
    IF (d.strongMatch \/ aggressive) /\ d.tabTitle # <<>>
    THEN LET cleanTitle == cleanClaudeTitle(d.tabTitle)
         IN  IF cleanTitle # <<>> /\ cleanTitle # s.Name THEN cleanTitle ELSE <<>>
    ELSE <<>>

\* the name the update carries ("": no rename)
updateName(s, d, aggressive) ==
    IF (d.strongMatch \/ aggressive) /\ d.tabTitle # <<>> /\ ~s.Renamed
    THEN LET cleanTitle == cleanClaudeTitle(d.tabTitle)
         IN  IF cleanTitle # <<>> /\ cleanTitle # s.Name THEN cleanTitle ELSE <<>>
    ELSE <<>>

makeUpdate(s, d, aggressive) ==
    [SessionID     |-> s.ClaudeSessionID,
     Status        |-> d.status,
     OldStatus     |-> s.Status,
     Name          |-> updateName(s, d, aggressive),
     OldName       |-> s.Name,
     KittyWindowID |-> updateWindowID(s, d, aggressive)]

\* sessionChanged that counts another window id for a weak match too
sessionChanged_WeakHandleToo(s, d, aggressive) ==
    \/ d.status # s.Status
    \/ d.windowID # s.KittyWindowID
    \/ updateName(s, d, aggressive) # <<>>

\* sessionChanged that looks at the status alone
sessionChanged_StatusOnly(s, d, aggressive) == d.status # s.Status

\* whether the loop body sets anyChanged for this session
sessionChanged(s, d, aggressive) ==
    \/ d.status # s.Status
    \/ (d.strongMatch \/ aggressive) /\ d.windowID # s.KittyWindowID
    \/ updateName(s, d, aggressive) # <<>>

RECURSIVE computeLoop(_, _, _, _, _)
\* the loop over the sorted sessions from position k on; acc holds the
\* updates, the matcher's results (detects) and the flags so far
computeLoop(sortable, activeSessions, aggressive, k, acc) ==
    IF k > Len(sortable) THEN acc
    ELSE LET s == sortable[k]
             d == detectSessionStatus(s, activeSessions, acc.matchedWindows)
             u == makeUpdate(s, d, aggressive)
         IN  computeLoop(sortable, activeSessions, aggressive, k + 1,
                 [updates         |-> Append(acc.updates, u),
                  detects         |-> Append(acc.detects, d),
                  matchedWindows  |-> d.matchedWindows,
                  namesChanged    |-> acc.namesChanged \/ u.Name # <<>>,
                  anyChanged      |-> acc.anyChanged \/ sessionChanged(s, d, aggressive)])

\* Returns [updates, activeWindowIDs, namesChanged, anyChanged] and, for
\* the properties, the processing order (sorted) and the matcher's result
\* for each processed session (detects).
computeStatusesInternal(sessions, ls, aggressive) ==
    LET activeSessions == getKittyActiveSessions(ls)
        sortable == sortByMtime(sessions)
        r == computeLoop(sortable, activeSessions, aggressive, 1,
                 [updates |-> <<>>, detects |-> <<>>, matchedWindows |-> {},
                  namesChanged |-> FALSE, anyChanged |-> FALSE])
    IN  [updates         |-> r.updates,
         activeWindowIDs |-> {activeSessions[i].windowID : i \in 1..Len(activeSessions)},
         namesChanged    |-> r.namesChanged,
         anyChanged      |-> r.anyChanged,
         sorted          |-> sortable,
         detects         |-> r.detects]

ComputeStatuses(sessions, ls) == computeStatusesInternal(sessions, ls, FALSE)

ComputeStatusesAggressive(sessions, ls) == computeStatusesInternal(sessions, ls, TRUE)

(***************************************************************************)
(* Update applier                                                          *)
(***************************************************************************)
\* updateMap: the last update of the list for a session id, 0 when none
lastUpdateIndex(updates, sid) ==
    LET hits == {i \in 1..Len(updates) : updates[i].SessionID = sid}
    IN  IF hits = {} THEN 0 ELSE CHOOSE i \in hits : \A j \in hits : j <= i

\* claimedWindows[windowID]: the session id of the last update that carries
\* windowID (> 0); <<>> stands for "not in the map"
claimedBy(updates, windowID) ==
    LET hits == {i \in 1..Len(updates) :
                    updates[i].KittyWindowID > 0 /\ updates[i].KittyWindowID = windowID}
    IN  IF hits = {} THEN [claimed |-> FALSE, claimer |-> <<>>]
        ELSE [claimed |-> TRUE,
              claimer |-> updates[CHOOSE i \in hits : \A j \in hits : j <= i].SessionID]

\* applyUpdate with an empty name applied like any other
applyUpdate_EmptyNameOverwrites(s, u) ==
    LET statusDiffers == s.Status # u.Status
        nameDiffers   == s.Name # u.Name
        windowDiffers == u.KittyWindowID # s.KittyWindowID
    IN  [session   |-> [s EXCEPT !.Status = IF statusDiffers THEN u.Status ELSE @,
                                 !.Name = IF nameDiffers THEN u.Name ELSE @,
                                 !.KittyWindowID = IF windowDiffers THEN u.KittyWindowID ELSE @],
         changed   |-> statusDiffers \/ nameDiffers \/ windowDiffers,
         needsSave |-> nameDiffers \/ windowDiffers]

\* applyUpdate with the name written, and reported, whenever the update has one
applyUpdate_NameAlwaysWritten(s, u) ==
    LET statusDiffers == s.Status # u.Status
        nameDiffers   == u.Name # <<>>
        windowDiffers == u.KittyWindowID # s.KittyWindowID
    IN  [session   |-> [s EXCEPT !.Status = IF statusDiffers THEN u.Status ELSE @,
                                 !.Name = IF nameDiffers THEN u.Name ELSE @,
                                 !.KittyWindowID = IF windowDiffers THEN u.KittyWindowID ELSE @],
         changed   |-> statusDiffers \/ nameDiffers \/ windowDiffers,
         needsSave |-> nameDiffers \/ windowDiffers]

\* applyUpdate that reports a changed window id and does not store it
applyUpdate_WindowNotWritten(s, u) ==
    LET statusDiffers == s.Status # u.Status
        nameDiffers   == u.Name # <<>> /\ s.Name # u.Name
        windowDiffers == u.KittyWindowID # s.KittyWindowID
    IN  [session   |-> [s EXCEPT !.Status = IF statusDiffers THEN u.Status ELSE @,
                                 !.Name = IF nameDiffers THEN u.Name ELSE @],
         changed   |-> statusDiffers \/ nameDiffers \/ windowDiffers,
         needsSave |-> nameDiffers \/ windowDiffers]

\* the loop body for a session s that has the update u: the session after
\* it and whether it sets changed and needsSave
applyUpdate(s, u) ==
    LET statusDiffers == s.Status # u.Status
        nameDiffers   == u.Name # <<>> /\ s.Name # u.Name
        windowDiffers == u.KittyWindowID # s.KittyWindowID
    IN  [session   |-> [s EXCEPT !.Status = IF statusDiffers THEN u.Status ELSE @,
                                 !.Name = IF nameDiffers THEN u.Name ELSE @,
                                 !.KittyWindowID = IF windowDiffers THEN u.KittyWindowID ELSE @],
         changed   |-> statusDiffers \/ nameDiffers \/ windowDiffers,
         needsSave |-> nameDiffers \/ windowDiffers]

\* whether a session without an update loses its stored window id
staleCleared(s, updates) ==
    /\ s.KittyWindowID > 0
    /\ claimedBy(updates, s.KittyWindowID).claimed
    /\ claimedBy(updates, s.KittyWindowID).claimer # s.ClaudeSessionID

\* applyNoUpdate without the else branch of the loop
applyNoUpdate_KeepsStale(s, updates) ==
    [session |-> s, changed |-> FALSE, needsSave |-> FALSE]

\* the loop body for a session without an update
applyNoUpdate(s, updates) ==
    IF staleCleared(s, updates)
    THEN [session |-> [s EXCEPT !.KittyWindowID = 0], changed |-> TRUE, needsSave |-> TRUE]
    ELSE [session |-> s, changed |-> FALSE, needsSave |-> FALSE]

\* the loop body
applyOne(s, updates) ==
    LET k == lastUpdateIndex(updates, s.ClaudeSessionID)
    IN  IF k # 0 THEN applyUpdate(s, updates[k]) ELSE applyNoUpdate(s, updates)

\* Returns the sessions after the call with the Go results (changed, needsSave)
ApplyStatusUpdates(sessions, updates) ==
    [sessions  |-> [i \in 1..Len(sessions) |-> applyOne(sessions[i], updates).session],
     changed   |-> \E i \in 1..Len(sessions) : applyOne(sessions[i], updates).changed,
     needsSave |-> \E i \in 1..Len(sessions) : applyOne(sessions[i], updates).needsSave]

\* Returns the sessions after the call with the Go result (needsSave)
RefreshStatuses(sessions, ls) ==
    ApplyStatusUpdates(sessions, ComputeStatuses(sessions, ls).updates)

RefreshStatusesAggressive(sessions, ls) ==
    ApplyStatusUpdates(sessions, ComputeStatusesAggressive(sessions, ls).updates)

(***************************************************************************)
(* Window-id claim helper.  claiming is the position of the claiming       *)
(* session in the list (Go compares the pointers).                         *)
(***************************************************************************)
claimOne(sessions, claiming, windowID, i) ==
    IF i = claiming THEN [sessions[i] EXCEPT !.KittyWindowID = windowID]
    ELSE IF sessions[i].KittyWindowID = windowID THEN [sessions[i] EXCEPT !.KittyWindowID = 0]
    ELSE sessions[i]

\* ClaimWindowID counting the claiming session among the modified ones
ClaimWindowID_CountsSelf(sessions, claiming, windowID) ==
    IF windowID <= 0 THEN [sessions |-> sessions, modified |-> FALSE]
    ELSE [sessions |-> [i \in 1..Len(sessions) |-> claimOne(sessions, claiming, windowID, i)],
          modified |-> \E i \in 1..Len(sessions) : sessions[i].KittyWindowID = windowID]

\* ClaimWindowID with the guard windowID < 0
ClaimWindowID_ZeroAllowed(sessions, claiming, windowID) ==
    IF windowID < 0 THEN [sessions |-> sessions, modified |-> FALSE]
    ELSE [sessions |-> [i \in 1..Len(sessions) |-> claimOne(sessions, claiming, windowID, i)],
          modified |-> \E i \in 1..Len(sessions) :
                           i # claiming /\ sessions[i].KittyWindowID = windowID]

\* Returns the sessions after the call with the Go result (modified)
ClaimWindowID(sessions, claiming, windowID) ==
    IF windowID <= 0 THEN [sessions |-> sessions, modified |-> FALSE]
    ELSE [sessions |-> [i \in 1..Len(sessions) |-> claimOne(sessions, claiming, windowID, i)],
          modified |-> \E i \in 1..Len(sessions) :
                           i # claiming /\ sessions[i].KittyWindowID = windowID]

\* GetActiveWindowID(s) when kitty lists ls: the session after the call (a
\* stored id whose window is gone is cleared) and the window id returned
GetActiveWindowID(s, ls) ==
    LET activeSessions == getKittyActiveSessions(ls)
        stored == {k \in 1..Len(activeSessions) :
                      activeSessions[k].windowID = s.KittyWindowID}
        byID == FirstOf({k \in 1..Len(activeSessions) :
                            /\ activeSessions[k].sessionID # <<>>
                            /\ activeSessions[k].sessionID = s.ClaudeSessionID})
        byPath == FirstOf({k \in 1..Len(activeSessions) :
                              /\ activeSessions[k].sessionID = <<>>
                              /\ pathMatch(activeSessions[k], s)})
    IN  IF s.KittyWindowID > 0 /\ stored # {}
        THEN [session |-> s, windowID |-> s.KittyWindowID]
        ELSE [session  |-> IF s.KittyWindowID > 0 THEN [s EXCEPT !.KittyWindowID = 0] ELSE s,
              windowID |-> IF byID # 0 THEN activeSessions[byID].windowID
                           ELSE IF byPath # 0 THEN activeSessions[byPath].windowID
                           ELSE 0]

\* Manager.RenameSession on the session at position i (found by its ID)
RenameSession(sessions, i, name) ==
    [sessions EXCEPT ![i] = [@ EXCEPT !.Name = name, !.Renamed = TRUE]]

\* the key of MergeSessions' storedMap: ClaudeSessionID + ":" + ProjectPath
mergeKey(s) == s.ClaudeSessionID \o <<58>> \o s.ProjectPath

\* sort.Slice by LastAccessedAt, most recent first; for the short slices
\* here the library sorts by insertion: an element moves left past the
\* elements accessed strictly earlier
RECURSIVE insertByLastAccessed(_, _)
insertByLastAccessed(sorted, s) ==
    IF sorted = <<>> \/ ~(s.LastAccessedAt > sorted[Len(sorted)].LastAccessedAt)
    THEN Append(sorted, s)
    ELSE Append(insertByLastAccessed(SubSeq(sorted, 1, Len(sorted) - 1), s),
                sorted[Len(sorted)])

RECURSIVE sortByLastAccessed(_)
sortByLastAccessed(ss) ==
    IF ss = <<>> THEN <<>>
    ELSE insertByLastAccessed(sortByLastAccessed(SubSeq(ss, 1, Len(ss) - 1)), ss[Len(ss)])

\* MergeSessions(discovered, stored): the discovered sessions, those known
\* to the storage with their stored metadata, the new ones after them with
\* Orders below the stored ones; all renumbered by recency when an Order is
\* zero or used twice
MergeSessions(discovered, stored) ==
    LET found(d) == {k \in 1..Len(stored) : mergeKey(stored[k]) = mergeKey(d)}
        isStored(d) == found(d) # {}
        isNew(d) == found(d) = {}
        orders == {1} \cup {stored[k].Order : k \in 1..Len(stored)}
        minOrder == CHOOSE m \in orders : \A o \in orders : m <= o
        known == SelectSeq(discovered, isStored)
        kept == [k \in 1..Len(known) |->
                    [stored[CHOOSE j \in found(known[k]) : \A h \in found(known[k]) : h <= j]
                        EXCEPT !.JSONLPath = known[k].JSONLPath,
                               !.LastAccessedAt = known[k].LastAccessedAt]]
        newSessions == sortByLastAccessed(SelectSeq(discovered, isNew))
        placed == [i \in 1..Len(newSessions) |->
                      [newSessions[i] EXCEPT !.Order = minOrder - Len(newSessions) + (i - 1)]]
        result == kept \o placed
        needsReorder == \E i \in 1..Len(result) :
                            \/ result[i].Order = 0
                            \/ \E j \in 1..(i - 1) : result[j].Order = result[i].Order
        byRecency == sortByLastAccessed(result)
    IN  IF needsReorder
        THEN [i \in 1..Len(byRecency) |-> [byRecency[i] EXCEPT !.Order = i]]
        ELSE result

(***************************************************************************)
(* State.                                                                  *)
(*   sessions  the session records (Manager.Sessions)                      *)
(*   kittyLs   what `kitty @ ls` answers now                               *)
(*   pc        the position of the run                                     *)
(*   pass      the result of the last computeStatusesInternal, with its    *)
(*             mode and the sessions it read                               *)
(*   msgs      the statusRefreshedMsg values not yet handled               *)
(*   call      the last call that may write sessions: its name, arguments  *)
(*             and results                                                 *)
(*   before    the session records before that call                        *)
(*   events    the messages the event loop has handled                     *)
(*   ticks     the status ticks scheduled and not yet handled              *)
(*   running   the status computations started and not yet finished        *)
(*   pendingRename  the App's pendingRenamePath, pendingRenameName and     *)
(*             pendingRenameWindowID: the new session waiting for its      *)
(*             transcript                                                  *)
(***************************************************************************)
VARIABLES sessions, kittyLs, pc, pass, msgs, call, before, events, ticks, running,
          pendingRename

vars == <<sessions, kittyLs, pc, pass, msgs, call, before, events, ticks, running,
          pendingRename>>

NoPass == [mode |-> "none"]
NoCall == [op |-> "none"]
NoPending == [Path |-> <<>>, Name |-> <<>>, WindowID |-> 0]

(***************************************************************************)
(* The values the model draws from.                                        *)
(***************************************************************************)
\* session ids "a1", "b2", "c3", ...: runs of [0-9a-f]
Sid(i) == <<96 + i, 48 + i>>
\* transcript paths "/a", "/b", ...
JsonlPathOf(i) == <<47, 96 + i>>
\* "/p", the project path of the sessions, and "/pq", a path that has "/p"
\* as a string prefix without being under it, and "/p/s", a subdirectory
PathP == <<47, 112>>
PathPQ == <<47, 112, 113>>
PathPS == <<47, 112, 47, 115>>
\* names and titles: "n", "t", "u"; the titles "⠂n" (busy), "✳ t" (unsaved)
NameN == <<110>>
NameT == <<116>>
NameU == <<117>>
TitleBusyN == <<10242, 110>>
TitleUnsavedT == <<10035, 32, 116>>
\* "claude" and "claude --resume <sid>"
CmdClaude == ClaudeWord
CmdResume(sid) == ClaudeWord \o <<32>> \o ResumeFlag \o sid

SessionIdx == 1..NSessions
Handles == 1..MaxHandle

\* transcripts: none, unreadable, or modified at 1..MaxMtime
Transcripts(i) ==
    {[JSONLPath |-> <<>>, ModTime |-> 0]}
        \cup {[JSONLPath |-> JsonlPathOf(i), ModTime |-> m] : m \in 0..MaxMtime}

\* the session records a stored session i may hold after loading
LoadedSessions(i) ==
    {[ClaudeSessionID |-> Sid(i), Name |-> NameN, Renamed |-> r, Status |-> StatusIdle,
      KittyWindowID |-> w, ProjectPath |-> PathP,
      JSONLPath |-> t.JSONLPath, ModTime |-> t.ModTime] :
        r \in BOOLEAN, w \in 0..MaxHandle, t \in Transcripts(i)}

\* what a claude window with id h may look like: resumed for a tracked
\* session, or started plain in "/p" or in "/pq"
WindowsOf(h) ==
    {[ID |-> h, Title |-> ti, TabTitle |-> <<>>, Cmdline |-> CmdResume(Sid(i)), Cwd |-> PathP] :
        ti \in {TitleBusyN, TitleUnsavedT}, i \in SessionIdx}
    \cup {[ID |-> h, Title |-> ti, TabTitle |-> <<>>, Cmdline |-> CmdClaude, Cwd |-> c] :
        ti \in {TitleBusyN, TitleUnsavedT}, c \in {PathP, PathPQ}}

RECURSIVE ListingsFrom(_)
\* the listings of the windows with ids h..MaxHandle, each open or not
ListingsFrom(h) ==
    IF h > MaxHandle THEN {<<>>}
    ELSE LET rest == ListingsFrom(h + 1)
         IN  rest \cup {<<w>> \o l : w \in WindowsOf(h), l \in rest}

Listings == ListingsFrom(1)

(***************************************************************************)
(* SpecReconcile: one reconciliation pass as RefreshStatuses and           *)
(* RefreshStatusesAggressive run it, over any loaded sessions and any      *)
(* listing: compute, then apply.                                           *)
(***************************************************************************)
InitReconcile ==
    /\ sessions \in [SessionIdx -> UNION {LoadedSessions(i) : i \in SessionIdx}]
    /\ \A i \in SessionIdx : sessions[i] \in LoadedSessions(i)
    /\ kittyLs \in Listings
    /\ pc = "ready"
    /\ pass = NoPass
    /\ msgs = <<>>
    /\ call = NoCall
    /\ events = 0
    /\ ticks = 0
    /\ running = 0
    /\ pendingRename = NoPending
    /\ before = sessions

\* Compute that sorts the caller's slice instead of its own copy
Compute_SortsInPlace(aggressive) ==
    /\ pc = "ready"
    /\ pass' = [mode |-> IF aggressive THEN "aggressive" ELSE "normal",
                read |-> sessions,
                out  |-> computeStatusesInternal(sessions, kittyLs, aggressive)]
    /\ sessions' = sortByMtime(sessions)
    /\ pc' = "computed"
    /\ UNCHANGED <<pendingRename, ticks, running, events, kittyLs, msgs, call, before>>

\* computeStatusesInternal(sessions, aggressive)
Compute(aggressive) ==
    /\ pc = "ready"
    /\ pass' = [mode |-> IF aggressive THEN "aggressive" ELSE "normal",
                read |-> sessions,
                out  |-> computeStatusesInternal(sessions, kittyLs, aggressive)]
    /\ pc' = "computed"
    /\ UNCHANGED <<pendingRename, ticks, running, events, sessions, kittyLs, msgs, call, before>>

\* ApplyStatusUpdates(sessions, updates) on the updates of the pass
Apply ==
    /\ pc = "computed"
    /\ LET r == ApplyStatusUpdates(sessions, pass.out.updates)
       IN  /\ sessions' = r.sessions
           /\ call' = [op |-> "ApplyStatusUpdates", updates |-> pass.out.updates,
                       changed |-> r.changed, needsSave |-> r.needsSave]
    /\ before' = sessions
    /\ pc' = "applied"
    /\ UNCHANGED <<pendingRename, ticks, running, events, kittyLs, pass, msgs>>

NextReconcile ==
    \/ Compute(FALSE)
    \/ Compute(TRUE)
    \/ Apply

SpecReconcile == InitReconcile /\ [][NextReconcile]_vars

(***************************************************************************)
(* SpecTwoPasses: a pass as in SpecReconcile and then, with the listing    *)
(* and the transcripts as they were, a second pass in the same mode.       *)
(***************************************************************************)
\* computeStatusesInternal(sessions, aggressive) right after a pass
ComputeNext ==
    /\ pc = "applied"
    /\ pass.mode \in {"normal", "aggressive"}
    /\ pass' = [mode |-> pass.mode,
                read |-> sessions,
                out  |-> computeStatusesInternal(sessions, kittyLs, pass.mode = "aggressive")]
    /\ pc' = "recomputed"
    /\ UNCHANGED <<pendingRename, ticks, running, events, sessions, kittyLs, msgs, call, before>>

\* ApplyStatusUpdates(sessions, updates) on the updates of the second pass
ApplyNext ==
    /\ pc = "recomputed"
    /\ LET r == ApplyStatusUpdates(sessions, pass.out.updates)
       IN  /\ sessions' = r.sessions
           /\ call' = [op |-> "ApplyStatusUpdates", updates |-> pass.out.updates,
                       changed |-> r.changed, needsSave |-> r.needsSave]
    /\ before' = sessions
    /\ pc' = "reapplied"
    /\ UNCHANGED <<pendingRename, ticks, running, events, kittyLs, pass, msgs>>

NextTwoPasses ==
    \/ Compute(FALSE)
    \/ Compute(TRUE)
    \/ Apply
    \/ ComputeNext
    \/ ApplyNext

SpecTwoPasses == InitReconcile /\ [][NextTwoPasses]_vars

(***************************************************************************)
(* SpecApply: ApplyStatusUpdates as a function of its arguments, over any  *)
(* sessions and any update list with at most one update per session id     *)
(* (one of them possibly for a session that is no longer in the list), and *)
(* then once more with the same list.                                      *)
(***************************************************************************)
\* the session id of a session that is not in the list
StrangerID == Sid(NSessions + 1)

GivenSessions(i) ==
    {[ClaudeSessionID |-> Sid(i), Name |-> NameN, Renamed |-> FALSE, Status |-> st,
      KittyWindowID |-> w, ProjectPath |-> PathP, JSONLPath |-> <<>>, ModTime |-> 0] :
        st \in Statuses, w \in 0..MaxHandle}

mkUpdate(sid, st, name, w) ==
    [SessionID |-> sid, Status |-> st, OldStatus |-> StatusIdle, Name |-> name,
     OldName |-> <<>>, KittyWindowID |-> w]

\* no update or one update for session i
GivenUpdates(i) ==
    {<<>>} \cup {<<mkUpdate(Sid(i), st, name, w)>> :
                    st \in {StatusIdle, StatusRunning},
                    name \in {<<>>, NameN, NameT},
                    w \in 0..MaxHandle}

StrangerUpdates ==
    {<<>>} \cup {<<mkUpdate(StrangerID, StatusRunning, <<>>, w)>> : w \in Handles}

RECURSIVE UpdateListsFrom(_)
UpdateListsFrom(i) ==
    IF i > NSessions THEN StrangerUpdates
    ELSE {u \o l : u \in GivenUpdates(i), l \in UpdateListsFrom(i + 1)}

InitApply ==
    /\ sessions \in [SessionIdx -> UNION {GivenSessions(i) : i \in SessionIdx}]
    /\ \A i \in SessionIdx : sessions[i] \in GivenSessions(i)
    /\ kittyLs = <<>>
    /\ pc = "computed"
    /\ \E ul \in UpdateListsFrom(1) :
           pass = [mode |-> "given", read |-> sessions, out |-> [updates |-> ul]]
    /\ msgs = <<>>
    /\ call = NoCall
    /\ events = 0
    /\ ticks = 0
    /\ running = 0
    /\ pendingRename = NoPending
    /\ before = sessions

\* the same call once more
ApplyAgain ==
    /\ pc = "applied"
    /\ LET r == ApplyStatusUpdates(sessions, pass.out.updates)
       IN  /\ sessions' = r.sessions
           /\ call' = [op |-> "ApplyStatusUpdates", updates |-> pass.out.updates,
                       changed |-> r.changed, needsSave |-> r.needsSave]
    /\ before' = sessions
    /\ pc' = "reapplied"
    /\ UNCHANGED <<pendingRename, ticks, running, events, kittyLs, pass, msgs>>

NextApply ==
    \/ Apply
    \/ ApplyAgain

SpecApply == InitApply /\ [][NextApply]_vars

(***************************************************************************)
(* SpecClaim: ClaimWindowID as a function of its arguments, over a list of *)
(* NSessions + 1 sessions (so that several other sessions can hold the     *)
(* claimed id), any stored ids, any claiming session and any window id     *)
(* from -1 on.                                                             *)
(***************************************************************************)
ClaimIdx == 1..(NSessions + 1)

InitClaim ==
    /\ sessions \in [ClaimIdx -> UNION {GivenSessions(i) : i \in ClaimIdx}]
    /\ \A i \in ClaimIdx : sessions[i] \in GivenSessions(i) /\ sessions[i].Status = StatusIdle
    /\ kittyLs = <<>>
    /\ pc = "ready"
    /\ pass = NoPass
    /\ msgs = <<>>
    /\ call = NoCall
    /\ events = 0
    /\ ticks = 0
    /\ running = 0
    /\ pendingRename = NoPending
    /\ before = sessions

\* ClaimWindowID(sessions, sessions[claiming], windowID)
Claim(claiming, windowID) ==
    /\ pc = "ready"
    /\ LET r == ClaimWindowID(sessions, claiming, windowID)
       IN  /\ sessions' = r.sessions
           /\ call' = [op |-> "ClaimWindowID", claiming |-> claiming,
                       windowID |-> windowID, modified |-> r.modified]
    /\ before' = sessions
    /\ pc' = "claimed"
    /\ UNCHANGED <<pendingRename, ticks, running, events, kittyLs, pass, msgs>>

NextClaim == \E claiming \in ClaimIdx, windowID \in (-1)..MaxHandle : Claim(claiming, windowID)

SpecClaim == InitClaim /\ [][NextClaim]_vars

(***************************************************************************)
(* SpecPasses: the session records over any sequence of normal-mode passes *)
(* (RefreshStatuses, kitty answering any listing) and ClaimWindowID calls, *)
(* from stored window ids that are pairwise distinct.                      *)
(***************************************************************************)
DistinctWindowIDs(ss) ==
    \A i, j \in 1..Len(ss) :
        i # j /\ ss[i].KittyWindowID # 0 => ss[i].KittyWindowID # ss[j].KittyWindowID

\* the sessions the event loop starts from: not renamed, transcripts readable
TrackedSessions(i) ==
    {s \in LoadedSessions(i) : s.JSONLPath # <<>> /\ s.ModTime = 1 /\ ~s.Renamed}

InitPasses ==
    /\ sessions \in [SessionIdx -> UNION {TrackedSessions(i) : i \in SessionIdx}]
    /\ \A i \in SessionIdx : sessions[i] \in TrackedSessions(i)
    /\ DistinctWindowIDs(sessions)
    /\ kittyLs = <<>>
    /\ pc = "loop"
    /\ pass = NoPass
    /\ msgs = <<>>
    /\ call = NoCall
    /\ events = 0
    /\ ticks = 0
    /\ running = 0
    /\ pendingRename = NoPending
    /\ before = <<>>

\* RefreshStatuses(sessions) while kitty lists ls
RefreshPass(ls) ==
    /\ pc = "loop"
    /\ LET r == RefreshStatuses(sessions, ls)
       IN  /\ sessions' = r.sessions
           /\ call' = [op |-> "RefreshStatuses", needsSave |-> r.needsSave]
    /\ UNCHANGED <<pendingRename, ticks, running, events, kittyLs, pc, pass, msgs, before>>

\* ClaimWindowID(sessions, sessions[claiming], windowID)
ClaimPass(claiming, windowID) ==
    /\ pc = "loop"
    /\ LET r == ClaimWindowID(sessions, claiming, windowID)
       IN  /\ sessions' = r.sessions
           /\ call' = [op |-> "ClaimWindowID", claiming |-> claiming,
                       windowID |-> windowID, modified |-> r.modified]
    /\ UNCHANGED <<pendingRename, ticks, running, events, kittyLs, pc, pass, msgs, before>>

NextPasses ==
    \/ \E ls \in Listings : RefreshPass(ls)
    \/ \E claiming \in SessionIdx, windowID \in Handles : ClaimPass(claiming, windowID)

SpecPasses == InitPasses /\ [][NextPasses]_vars

(***************************************************************************)
(* Spec: the event loop of the UI (App.Update) around the reconciliation:  *)
(* a trigger starts a computation off the loop, its result comes back as a *)
(* statusRefreshedMsg and is applied on the loop, and between the two the  *)
(* loop handles the user's keys (rename, open).  Whenever kitty is asked,  *)
(* it may answer any listing.                                              *)
(***************************************************************************)
\* computations started and not yet handled at any one time
MaxInFlight == 1
\* messages and keys the loop handles in one run
MaxEvents == 4

\* the listings the loop meets: every window resumed for a tracked session
\* and waiting with an unsaved title
LoopListings ==
    {ls \in Listings : \A k \in 1..Len(ls) : /\ Contains(ls[k].Cmdline, ResumeFlag)
                                             /\ ls[k].Title = TitleUnsavedT}

Init ==
    /\ sessions \in [SessionIdx -> UNION {TrackedSessions(i) : i \in SessionIdx}]
    /\ \A i \in SessionIdx : sessions[i] \in TrackedSessions(i)
    /\ DistinctWindowIDs(sessions)
    /\ kittyLs = <<>>
    /\ pc = "loop"
    /\ pass = NoPass
    /\ msgs = <<>>
    /\ call = NoCall
    /\ events = 0
    /\ ticks = 0
    /\ running = 0
    /\ pendingRename = NoPending
    /\ before = <<>>

\* refreshStatusesAsync: the command computes from the session records as
\* they are when it runs, while kitty lists ls, and sends its result
refreshStatusesAsync(ls) ==
    /\ pc = "loop"
    /\ events < MaxEvents
    /\ events' = events + 1
    /\ Len(msgs) < MaxInFlight
    /\ LET r == ComputeStatuses(sessions, ls)
       IN  msgs' = Append(msgs, [updates |-> r.updates,
                                 activeWindowIDs |-> r.activeWindowIDs,
                                 noChanges |-> ~r.anyChanged])
    /\ UNCHANGED <<pendingRename, ticks, running, sessions, kittyLs, pc, pass, call, before>>

isPending(s) == HasPrefix(s.ClaudeSessionID, PendingPrefix)

windowGone(s, activeWindowIDs) ==
    s.KittyWindowID > 0 /\ s.KittyWindowID \notin activeWindowIDs

\* the sessions that stay: all but the pending ones whose window is gone
remainingSessions(ss, activeWindowIDs) ==
    SelectSeqOf(ss, {i \in 1..Len(ss) :
                        ~(isPending(ss[i]) /\ windowGone(ss[i], activeWindowIDs))}, 1)

\* App.Update on the k-th statusRefreshedMsg in flight
HandleStatusRefreshed(k) ==
    /\ pc = "loop"
    /\ events < MaxEvents
    /\ events' = events + 1
    /\ k \in 1..Len(msgs)
    /\ LET msg == msgs[k]
           r == ApplyStatusUpdates(sessions, msg.updates)
           kept == remainingSessions(r.sessions, msg.activeWindowIDs)
           windowStillExists == pendingRename.WindowID \in msg.activeWindowIDs
           at == FirstOf({i \in 1..Len(kept) :
                             kept[i].KittyWindowID = pendingRename.WindowID})
       IN  IF msg.noChanges /\ pendingRename.WindowID = 0
           THEN /\ sessions' = sessions
                /\ pendingRename' = pendingRename
                /\ call' = [op |-> "statusRefreshedMsg", applied |-> FALSE]
           ELSE /\ sessions' =
                       IF /\ pendingRename.WindowID > 0
                          /\ windowStillExists
                          /\ at # 0
                          /\ pendingRename.Name # <<>>
                          /\ ~kept[at].Renamed
                       THEN RenameSession(kept, at, pendingRename.Name)
                       ELSE kept
                /\ pendingRename' =
                       IF pendingRename.WindowID > 0 /\ (~windowStillExists \/ at # 0)
                       THEN NoPending
                       ELSE pendingRename
                /\ call' = [op |-> "statusRefreshedMsg", applied |-> TRUE]
    /\ msgs' = SelectSeqOf(msgs, (1..Len(msgs)) \ {k}, 1)
    /\ UNCHANGED <<running, ticks, kittyLs, pc, pass, before>>

\* App.updateRename on "enter" for the session at position i: RenameSession,
\* then GetActiveWindowID for the tab title, while kitty lists ls
updateRename(i, name, ls) ==
    /\ pc = "loop"
    /\ events < MaxEvents
    /\ events' = events + 1
    /\ i \in 1..Len(sessions)
    /\ LET renamed == RenameSession(sessions, i, name)
       IN  sessions' = [renamed EXCEPT ![i] = GetActiveWindowID(renamed[i], ls).session]
    /\ call' = [op |-> "RenameSession"]
    /\ UNCHANGED <<pendingRename, ticks, running, kittyLs, pc, pass, msgs, before>>

\* what terminal.OpenSession may return for a session whose active window
\* is active (0: none), while kitty lists ls: the focused window, or the id
\* of a new window, or 0 (no id known); -1 stands for an error
OpenResults(active, ls) ==
    {-1, 0}
        \cup (IF active > 0 THEN {active} ELSE {})
        \cup (Handles \ {ls[k].ID : k \in 1..Len(ls)})

\* the session records after App.handleOpen for the session at position i,
\* when terminal.OpenSession returned windowID
opened(ss, i, ls, windowID) ==
    LET g == GetActiveWindowID(ss[i], ls)
        looked == [ss EXCEPT ![i] = g.session]
        claimed == IF windowID > 0 THEN ClaimWindowID(looked, i, windowID).sessions
                   ELSE looked
    IN  IF windowID = -1 THEN looked
        ELSE [claimed EXCEPT ![i].Status = IF @ = StatusIdle THEN StatusWaiting ELSE @]

\* App.handleOpen for the session at position i
handleOpen(i, ls, windowID) ==
    /\ pc = "loop"
    /\ events < MaxEvents
    /\ events' = events + 1
    /\ i \in 1..Len(sessions)
    /\ windowID \in OpenResults(GetActiveWindowID(sessions[i], ls).windowID, ls)
    /\ sessions' = opened(sessions, i, ls, windowID)
    /\ call' = [op |-> "handleOpen"]
    /\ UNCHANGED <<pendingRename, ticks, running, kittyLs, pc, pass, msgs, before>>

Next ==
    \/ \E ls \in LoopListings : refreshStatusesAsync(ls)
    \/ \E k \in 1..MaxInFlight : HandleStatusRefreshed(k)
    \/ \E i \in SessionIdx, ls \in LoopListings : updateRename(i, NameU, ls)
    \/ \E i \in SessionIdx, ls \in LoopListings, windowID \in (-1)..MaxHandle :
           handleOpen(i, ls, windowID)

Spec == Init /\ [][Next]_vars

(***************************************************************************)
(* SpecStartup: the start of the program.  main has constructed the        *)
(* Manager, which loaded the sessions; App.Init starts the loadSessions    *)
(* command, which runs off the event loop: it loads the sessions again,    *)
(* computes an aggressive pass and applies it.  Meanwhile the loop handles *)
(* the messages that arrive: a focus event starts a computation, and its   *)
(* result is applied on the loop.  pass holds the position of the command  *)
(* (at), events counts the messages the loop has handled.  What the        *)
(* command writes to the storage file is not followed.                     *)
(***************************************************************************)
InitStartup ==
    /\ sessions \in [SessionIdx -> UNION {TrackedSessions(i) : i \in SessionIdx}]
    /\ \A i \in SessionIdx : sessions[i] \in TrackedSessions(i)
    /\ DistinctWindowIDs(sessions)
    /\ kittyLs = <<>>
    /\ pc = "loop"
    /\ pass = [mode |-> "loading", at |-> "started"]
    /\ msgs = <<>>
    /\ call = NoCall
    /\ events = 0
    /\ ticks = 0
    /\ running = 0
    /\ pendingRename = NoPending
    /\ before = <<>>

\* the command's a.manager.Load(): the records are built anew from the
\* storage file, with the runtime field Status at its zero value
loaderLoad ==
    /\ pass.at = "started"
    /\ sessions' = [i \in 1..Len(sessions) |-> [sessions[i] EXCEPT !.Status = StatusIdle]]
    /\ pass' = [mode |-> "loading", at |-> "loaded"]
    /\ UNCHANGED <<pendingRename, ticks, running, events, kittyLs, pc, msgs, call, before>>

\* the command's RefreshStatusesAggressive, first half: ComputeStatusesAggressive
loaderCompute(ls) ==
    /\ pass.mode = "loading"
    /\ pass.at = "loaded"
    /\ pass' = [mode |-> "aggressive", at |-> "computed", read |-> sessions,
                out |-> ComputeStatusesAggressive(sessions, ls)]
    /\ UNCHANGED <<pendingRename, ticks, running, events, sessions, kittyLs, pc, msgs, call, before>>

\* the command's RefreshStatusesAggressive, second half: ApplyStatusUpdates,
\* run by the command while the loop has handled `events` messages
loaderApply ==
    /\ pass.mode = "aggressive"
    /\ pass.at = "computed"
    /\ LET r == ApplyStatusUpdates(sessions, pass.out.updates)
       IN  /\ sessions' = r.sessions
           /\ call' = [op |-> "ApplyStatusUpdates", task |-> "command",
                       handledMeanwhile |-> events, needsSave |-> r.needsSave]
    /\ pass' = [pass EXCEPT !.at = "applied"]
    /\ UNCHANGED <<pendingRename, ticks, running, events, kittyLs, pc, msgs, before>>

NextStartup ==
    \/ loaderLoad
    \/ \E ls \in LoopListings : loaderCompute(ls)
    \/ loaderApply
    \/ \E ls \in LoopListings : refreshStatusesAsync(ls)
    \/ \E k \in 1..MaxInFlight : HandleStatusRefreshed(k)

SpecStartup == InitStartup /\ [][NextStartup]_vars

(***************************************************************************)
(* SpecTicks: the periodic reconciliation of the tick-driven App.Update    *)
(* (the first App of app.go).  The loadSessions command loads and          *)
(* refreshes the sessions and reports with sessionsLoadedMsg; its handler  *)
(* schedules the first status tick; a statusTickMsg starts a computation   *)
(* off the loop; its statusRefreshedMsg is handled on the loop, which      *)
(* schedules the next tick.  The timer fires, a started command finishes   *)
(* and the loop handles every message it is sent: weak fairness of each    *)
(* step.  The program is not quit.                                         *)
(***************************************************************************)
InitTicks ==
    /\ sessions \in [SessionIdx -> UNION {TrackedSessions(i) : i \in SessionIdx}]
    /\ \A i \in SessionIdx : sessions[i] \in TrackedSessions(i)
    /\ DistinctWindowIDs(sessions)
    /\ kittyLs = <<>>
    /\ pc = "start"
    /\ pass = NoPass
    /\ msgs = <<>>
    /\ call = NoCall
    /\ events = 0
    /\ ticks = 0
    /\ running = 0
    /\ pendingRename = NoPending
    /\ before = <<>>

\* the loadSessions command: Load (ok, or an error) and RefreshStatuses
\* while kitty lists ls, then sessionsLoadedMsg
LoadSessions(ls, ok) ==
    /\ pc = "start"
    /\ sessions' = IF ok THEN RefreshStatuses(sessions, ls).sessions ELSE sessions
    /\ pc' = IF ok THEN "sessionsLoadedMsg" ELSE "sessionsLoadedMsg err"
    /\ UNCHANGED <<pendingRename, ticks, running, events, kittyLs, pass, msgs, call, before>>

\* App.Update on sessionsLoadedMsg
HandleSessionsLoaded ==
    /\ pc \in {"sessionsLoadedMsg", "sessionsLoadedMsg err"}
    /\ IF pc = "sessionsLoadedMsg"
       THEN pc' = "loaded" /\ ticks' = ticks + 1
       ELSE pc' = "failed" /\ ticks' = ticks
    /\ UNCHANGED <<pendingRename, running, events, sessions, kittyLs, pass, msgs, call, before>>

\* App.Update on statusTickMsg: starts the computation
HandleStatusTick ==
    /\ ticks > 0
    /\ ticks' = ticks - 1
    /\ running' = running + 1
    /\ UNCHANGED <<pendingRename, events, sessions, kittyLs, pc, pass, msgs, call, before>>

\* the command started by the tick: ComputeStatuses(sessions) while kitty
\* lists ls, then statusRefreshedMsg
RunComputeStatuses(ls) ==
    /\ running > 0
    /\ running' = running - 1
    /\ LET r == ComputeStatuses(sessions, ls)
       IN  msgs' = Append(msgs, [updates |-> r.updates,
                                 activeWindowIDs |-> r.activeWindowIDs,
                                 noChanges |-> ~r.anyChanged])
    /\ UNCHANGED <<pendingRename, ticks, events, sessions, kittyLs, pc, pass, call, before>>

\* HandleStatusRefreshedTick that schedules no tick after a result without
\* changes
HandleStatusRefreshedTick_StopsWhenQuiet(k) ==
    /\ k \in 1..Len(msgs)
    /\ LET msg == msgs[k]
       IN  IF msg.noChanges
           THEN /\ sessions' = sessions
                /\ ticks' = ticks
                /\ call' = [op |-> "statusRefreshedMsg", applied |-> FALSE]
           ELSE /\ sessions' = ApplyStatusUpdates(sessions, msg.updates).sessions
                /\ ticks' = ticks + 1
                /\ call' = [op |-> "statusRefreshedMsg", applied |-> TRUE]
    /\ msgs' = SelectSeqOf(msgs, (1..Len(msgs)) \ {k}, 1)
    /\ UNCHANGED <<pendingRename, running, events, kittyLs, pc, pass, before>>

\* App.Update on the k-th statusRefreshedMsg in flight
HandleStatusRefreshedTick(k) ==
    /\ k \in 1..Len(msgs)
    /\ LET msg == msgs[k]
       IN  IF msg.noChanges
           THEN /\ sessions' = sessions
                /\ call' = [op |-> "statusRefreshedMsg", applied |-> FALSE]
           ELSE /\ sessions' = ApplyStatusUpdates(sessions, msg.updates).sessions
                /\ call' = [op |-> "statusRefreshedMsg", applied |-> TRUE]
    /\ ticks' = ticks + 1
    /\ msgs' = SelectSeqOf(msgs, (1..Len(msgs)) \ {k}, 1)
    /\ UNCHANGED <<pendingRename, running, events, kittyLs, pc, pass, before>>

NextTicks ==
    \/ \E ls \in LoopListings, ok \in BOOLEAN : LoadSessions(ls, ok)
    \/ HandleSessionsLoaded
    \/ HandleStatusTick
    \/ \E ls \in LoopListings : RunComputeStatuses(ls)
    \/ \E k \in 1..MaxInFlight : HandleStatusRefreshedTick(k)

SpecTicks ==
    /\ InitTicks
    /\ [][NextTicks]_vars
    /\ WF_vars(\E ls \in LoopListings, ok \in BOOLEAN : LoadSessions(ls, ok))
    /\ WF_vars(HandleSessionsLoaded)
    /\ WF_vars(HandleStatusTick)
    /\ WF_vars(\E ls \in LoopListings : RunComputeStatuses(ls))
    /\ WF_vars(\E k \in 1..MaxInFlight : HandleStatusRefreshedTick(k))

(***************************************************************************)
(* SpecRename: the user confirms renames of sessions, one after the other, *)
(* each with a name typed or with the empty name.                          *)
(***************************************************************************)
MaxRenames == 2

Names == {<<>>, NameT, NameU}

InitRename ==
    /\ sessions \in [SessionIdx -> UNION {LoadedSessions(i) : i \in SessionIdx}]
    /\ \A i \in SessionIdx : sessions[i] \in LoadedSessions(i)
    /\ \A i \in SessionIdx : sessions[i].JSONLPath # <<>> /\ sessions[i].ModTime = 1
    /\ kittyLs = <<>>
    /\ pc = "loop"
    /\ pass = NoPass
    /\ msgs = <<>>
    /\ call = NoCall
    /\ events = 0
    /\ ticks = 0
    /\ running = 0
    /\ pendingRename = NoPending
    /\ before = <<>>

\* Manager.RenameSession(id, name); i = 0 stands for an id FindSession
\* does not find
Rename(i, name) ==
    /\ pc = "loop"
    /\ events < MaxRenames
    /\ events' = events + 1
    /\ before' = sessions
    /\ sessions' = IF i \in SessionIdx THEN RenameSession(sessions, i, name) ELSE sessions
    /\ call' = [op |-> "RenameSession", i |-> i, name |-> name]
    /\ UNCHANGED <<pendingRename, ticks, running, kittyLs, pc, pass, msgs>>

NextRename == \E i \in 0..NSessions, name \in Names : Rename(i, name)

SpecRename == InitRename /\ [][NextRename]_vars

(***************************************************************************)
(* SpecMerge: Manager.Load merges what DiscoverSessions found on disk with *)
(* what the storage file holds.  `call` holds the two inputs, `sessions`   *)
(* the merged result.                                                      *)
(***************************************************************************)
MaxOrder == 3
MaxAccessed == 2

\* a session as the storage file may hold it: Status and JSONLPath are not
\* stored
StoredSessions(i) ==
    {[ClaudeSessionID |-> Sid(i), ProjectPath |-> PathP, KittyWindowID |-> w,
      Status |-> StatusIdle, Order |-> o, LastAccessedAt |-> t, JSONLPath |-> <<>>] :
        w \in 0..1, o \in {0, 1, MaxOrder}, t \in 1..MaxAccessed}

\* a session as DiscoverSessions builds it from a transcript file
DiscoveredSessions(i) ==
    {[ClaudeSessionID |-> Sid(i), ProjectPath |-> PathP, KittyWindowID |-> 0,
      Status |-> StatusIdle, Order |-> 0, LastAccessedAt |-> t, JSONLPath |-> JsonlPathOf(i)] :
        t \in 1..MaxAccessed}

\* the lists of at most NSessions sessions with distinct ids
ListsOf(ss) ==
    {l \in UNION {[1..n -> ss] : n \in 0..NSessions} :
        \A i, j \in 1..Len(l) : i # j => l[i].ClaudeSessionID # l[j].ClaudeSessionID}

InitMerge ==
    /\ \E discovered \in ListsOf(UNION {DiscoveredSessions(i) : i \in SessionIdx}),
          stored \in ListsOf(UNION {StoredSessions(i) : i \in SessionIdx}) :
           call = [op |-> "Load", discovered |-> discovered, stored |-> stored]
    /\ sessions = <<>>
    /\ kittyLs = <<>>
    /\ pc = "start"
    /\ pass = NoPass
    /\ msgs = <<>>
    /\ events = 0
    /\ ticks = 0
    /\ running = 0
    /\ pendingRename = NoPending
    /\ before = <<>>

\* Manager.Load: m.Sessions = MergeSessions(discovered, stored)
Merge ==
    /\ call.op = "Load"
    /\ sessions' = MergeSessions(call.discovered, call.stored)
    /\ call' = [call EXCEPT !.op = "MergeSessions"]
    /\ UNCHANGED <<pendingRename, ticks, running, events, kittyLs, pc, pass, msgs, before>>

NextMerge == Merge

SpecMerge == InitMerge /\ [][NextMerge]_vars

(***************************************************************************)
(* SpecMatch: detectSessionStatus on its own, for one session, any window  *)
(* snapshot and any set of windows matched before.  `sessions` holds the   *)
(* session, `kittyLs` the listing the snapshot is made from, `call` the    *)
(* matchedWindows given, and after the call `pass.out` the result.         *)
(***************************************************************************)
\* what a claude window with id h may look like to the matcher: resumed for
\* a session, or started plain in "/p", in "/pq" or in "/p/s"
MatchWindowsOf(h) ==
    {[ID |-> h, Title |-> ti, TabTitle |-> <<>>, Cmdline |-> CmdResume(Sid(i)), Cwd |-> PathP] :
        ti \in {TitleBusyN, TitleUnsavedT}, i \in SessionIdx}
    \cup {[ID |-> h, Title |-> ti, TabTitle |-> <<>>, Cmdline |-> CmdClaude, Cwd |-> c] :
        ti \in {TitleBusyN, TitleUnsavedT}, c \in {PathP, PathPQ, PathPS}}

\* the listings of windows with distinct ids, in any order
MatchListings ==
    {l \in UNION {[1..n -> UNION {MatchWindowsOf(h) : h \in Handles}] : n \in 0..MaxHandle} :
        \A i, j \in 1..Len(l) : i # j => l[i].ID # l[j].ID}

InitMatch ==
    /\ \E s \in LoadedSessions(1) : sessions = <<s>>
    /\ kittyLs \in MatchListings
    /\ \E matchedWindows \in SUBSET Handles :
           call = [op |-> "given", matchedWindows |-> matchedWindows]
    /\ pc = "ready"
    /\ pass = NoPass
    /\ msgs = <<>>
    /\ events = 0
    /\ ticks = 0
    /\ running = 0
    /\ pendingRename = NoPending
    /\ before = <<>>

\* detectSessionStatus(s, activeSessions, matchedWindows)
Detect ==
    /\ pc = "ready"
    /\ pass' = [mode |-> "match",
                out |-> detectSessionStatus(sessions[1], getKittyActiveSessions(kittyLs),
                                            call.matchedWindows)]
    /\ pc' = "matched"
    /\ UNCHANGED <<pendingRename, ticks, running, events, sessions, kittyLs, msgs, call, before>>

NextMatch == Detect

SpecMatch == InitMatch /\ [][NextMatch]_vars

(***************************************************************************)
(* SpecSort: the ordering step of computeStatusesInternal on its own, over *)
(* up to MaxSorted sessions with any transcripts.  `sessions` holds the    *)
(* sessions given, and after the step `pass.out.sorted` the order in which *)
(* the pass processes them.                                                *)
(***************************************************************************)
MaxSorted == 4

\* the lists of n sessions, the i-th with the id of session i and any
\* transcript
RECURSIVE SortListsOf(_)
SortListsOf(n) ==
    IF n = 0 THEN {<<>>}
    ELSE {Append(l, s) : l \in SortListsOf(n - 1),
                         s \in {x \in LoadedSessions(n) : ~x.Renamed /\ x.KittyWindowID = 0}}

InitSort ==
    /\ sessions \in UNION {SortListsOf(n) : n \in 0..MaxSorted}
    /\ kittyLs = <<>>
    /\ pc = "ready"
    /\ pass = NoPass
    /\ msgs = <<>>
    /\ call = NoCall
    /\ events = 0
    /\ ticks = 0
    /\ running = 0
    /\ pendingRename = NoPending
    /\ before = <<>>

\* the sortable slice of the pass, sorted
Sort ==
    /\ pc = "ready"
    /\ pass' = [mode |-> "sort", read |-> sessions, out |-> [sorted |-> sortByMtime(sessions)]]
    /\ pc' = "sorted"
    /\ UNCHANGED <<pendingRename, ticks, running, events, sessions, kittyLs, msgs, call, before>>

NextSort == Sort

SpecSort == InitSort /\ [][NextSort]_vars

(***************************************************************************)
(* SpecOpen: the user opens a session while the result of a computation is *)
(* in flight.  A trigger starts refreshStatusesAsync; before its           *)
(* statusRefreshedMsg is handled the user opens a session, and handleOpen  *)
(* binds the window OpenSession returned with ClaimWindowID; then the      *)
(* message is handled.  `call` keeps the session and the window of the     *)
(* claim.                                                                  *)
(***************************************************************************)
\* refreshStatusesAsync before the user has opened a session
computeBeforeOpen(ls) ==
    /\ call = NoCall
    /\ refreshStatusesAsync(ls)

\* App.handleOpen for the session at position i while a result is in
\* flight, OpenSession returning a window id
openWhileInFlight(i, ls, windowID) ==
    /\ pc = "loop"
    /\ events < MaxEvents
    /\ events' = events + 1
    /\ call = NoCall
    /\ msgs # <<>>
    /\ i \in 1..Len(sessions)
    /\ windowID > 0
    /\ windowID \in OpenResults(GetActiveWindowID(sessions[i], ls).windowID, ls)
    /\ sessions' = opened(sessions, i, ls, windowID)
    /\ call' = [op |-> "handleOpen", i |-> i, windowID |-> windowID]
    /\ UNCHANGED <<pendingRename, ticks, running, kittyLs, pc, pass, msgs, before>>

NextOpen ==
    \/ \E ls \in LoopListings : computeBeforeOpen(ls)
    \/ \E i \in SessionIdx, ls \in LoopListings, windowID \in Handles :
           openWhileInFlight(i, ls, windowID)
    \/ \E k \in 1..MaxInFlight : HandleStatusRefreshed(k)

SpecOpen == Init /\ [][NextOpen]_vars

(***************************************************************************)
(* SpecNewSession: the event loop with the new-session dialog.  Triggers   *)
(* start computations, the user creates new sessions, which opens a window *)
(* and adds a placeholder session until the transcript exists, and the     *)
(* results of the computations are handled, in any order.                  *)
(***************************************************************************)
\* "p (new)": the name of a placeholder created in "/p" without a name
NamePNew == <<112, 32, 40, 110, 101, 119, 41>>
\* "pq (new)"
NamePQNew == <<112, 113, 32, 40, 110, 101, 119, 41>>

\* fmt.Sprintf("pending-%d", windowID), for a window id of one digit
pendingID(windowID) == PendingPrefix \o <<48 + windowID>>

\* the placeholder session of the dialog
pendingSession(path, name, windowID) ==
    [ClaudeSessionID |-> pendingID(windowID),
     Name |-> IF name # <<>> THEN name
              ELSE IF path = PathP THEN NamePNew ELSE NamePQNew,
     Renamed |-> name # <<>>, Status |-> StatusWaiting,
     KittyWindowID |-> windowID, ProjectPath |-> path,
     JSONLPath |-> <<>>, ModTime |-> 0]

\* App.updateNewSessionDialog on "enter" with the path and the name given,
\* terminal.NewSession returning windowID (-1 stands for an error, 0 for a
\* window whose id is not known); the id of a new window is in no snapshot
\* taken before and is stored by no session
updateNewSessionDialog(path, name, windowID) ==
    /\ pc = "loop"
    /\ events < MaxEvents
    /\ events' = events + 1
    /\ \A k \in 1..Len(msgs) : windowID \notin msgs[k].activeWindowIDs
    /\ \A i \in 1..Len(sessions) : windowID > 0 => sessions[i].KittyWindowID # windowID
    /\ LET cleared == [i \in 1..Len(sessions) |->
                          IF sessions[i].ProjectPath = path
                          THEN [sessions[i] EXCEPT !.KittyWindowID = 0]
                          ELSE sessions[i]]
       IN  /\ sessions' = IF windowID > 0
                          THEN Append(cleared, pendingSession(path, name, windowID))
                          ELSE cleared
           /\ pendingRename' = IF windowID = -1 THEN pendingRename
                               ELSE [Path |-> path, Name |-> name, WindowID |-> windowID]
    /\ call' = [op |-> "updateNewSessionDialog"]
    /\ UNCHANGED <<ticks, running, kittyLs, pc, pass, msgs, before>>

NextNewSession ==
    \/ \E ls \in LoopListings : refreshStatusesAsync(ls)
    \/ \E k \in 1..MaxInFlight : HandleStatusRefreshed(k)
    \/ \E path \in {PathP, PathPQ}, name \in {<<>>, NameU}, windowID \in (-1)..MaxHandle :
           updateNewSessionDialog(path, name, windowID)

SpecNewSession == Init /\ [][NextNewSession]_vars

(***************************************************************************)
(* SpecCmdline: the provider on one claude window with any command line    *)
(* made of "claude" and up to two "--resume " flags, each followed by up   *)
(* to MaxRunLen code points.  `kittyLs` holds the window, and after the    *)
(* call `pass.out` the snapshot.                                           *)
(***************************************************************************)
MaxRunLen == 2

\* what may follow a flag: "a", "F", "9", "-", "g", " "
CmdlineRunes == {97, 70, 57, 45, 103, 32}

\* nothing, or " --resume " and what follows it
CmdlineParts ==
    {<<>>} \cup {<<32>> \o ResumeFlag \o tail :
                     tail \in UNION {[1..n -> CmdlineRunes] : n \in 0..MaxRunLen}}

Cmdlines == {ClaudeWord \o a \o b : a \in CmdlineParts, b \in CmdlineParts}

InitCmdline ==
    /\ \E cmdline \in Cmdlines, ti \in {TitleBusyN, TitleUnsavedT} :
           kittyLs = <<[ID |-> 1, Title |-> ti, TabTitle |-> <<>>,
                        Cmdline |-> cmdline, Cwd |-> PathP]>>
    /\ sessions = <<>>
    /\ pc = "ready"
    /\ pass = NoPass
    /\ msgs = <<>>
    /\ call = NoCall
    /\ events = 0
    /\ ticks = 0
    /\ running = 0
    /\ pendingRename = NoPending
    /\ before = <<>>

\* getKittyActiveSessions() while kitty lists kittyLs
Snap ==
    /\ pc = "ready"
    /\ pass' = [mode |-> "cmdline", out |-> getKittyActiveSessions(kittyLs)]
    /\ pc' = "listed"
    /\ UNCHANGED <<pendingRename, ticks, running, events, sessions, kittyLs, msgs, call, before>>

NextCmdline == Snap

SpecCmdline == InitCmdline /\ [][NextCmdline]_vars

(***************************************************************************)
(* SpecTitle: the title indicator parser as functions of the title, over   *)
(* every title of up to MaxTitleLen code points: classify it, clean it,    *)
(* clean the result again.                                                 *)
(***************************************************************************)
\* titles have up to MaxTitleLen code points
MaxTitleLen == 3

\* the code points of a title: the unsaved marker, a spinner frame, the
\* first and the last braille pattern, a space, "n" and "1"
TitleRunes == {UnsavedRune, 10242, BrailleFirst, BrailleLast, 32, 110, 49}

Titles == UNION {[1..n -> TitleRunes] : n \in 0..MaxTitleLen}

InitTitle ==
    /\ sessions = <<>>
    /\ kittyLs = <<>>
    /\ pc = "ready"
    /\ pass = NoPass
    /\ msgs = <<>>
    /\ \E title \in Titles : call = [op |-> "title", title |-> title]
    /\ events = 0
    /\ ticks = 0
    /\ running = 0
    /\ pendingRename = NoPending
    /\ before = <<>>

\* hasClaudeIndicator(title) and hasSpinnerIndicator(title)
Classify ==
    /\ pc = "ready"
    /\ call' = [op |-> "classify", title |-> call.title,
                indicator |-> hasClaudeIndicator(call.title),
                spinner |-> hasSpinnerIndicator(call.title)]
    /\ pc' = "classified"
    /\ UNCHANGED <<pendingRename, ticks, running, events, sessions, kittyLs, pass, msgs, before>>

\* cleanClaudeTitle(title)
Clean ==
    /\ pc = "classified"
    /\ call' = [op |-> "cleanClaudeTitle", title |-> call.title,
                clean |-> cleanClaudeTitle(call.title)]
    /\ pc' = "cleaned"
    /\ UNCHANGED <<pendingRename, ticks, running, events, sessions, kittyLs, pass, msgs, before>>

\* cleanClaudeTitle on the result of cleanClaudeTitle(title)
CleanAgain ==
    /\ pc = "cleaned"
    /\ call' = [op |-> "cleanClaudeTitle twice", title |-> call.title,
                clean |-> call.clean, again |-> cleanClaudeTitle(call.clean)]
    /\ pc' = "recleaned"
    /\ UNCHANGED <<pendingRename, ticks, running, events, sessions, kittyLs, pass, msgs, before>>

NextTitle ==
    \/ Classify
    \/ Clean
    \/ CleanAgain

SpecTitle == InitTitle /\ [][NextTitle]_vars

(***************************************************************************)
(* Properties.                                                             *)
(***************************************************************************)
\* a pass has been computed, in either mode
Computed == pass.mode \in {"normal", "aggressive"}

\* the positions of the pass: sorted[k] is the session as the pass read it,
\* detects[k] the matcher's result for it, updates[k] its update
PassIdx == 1..Len(pass.out.updates)

\* the list has an update for the session id, and that update (the lists of
\* the model hold at most one per session id)
HasUpdate(updates, sid) == \E j \in 1..Len(updates) : updates[j].SessionID = sid
UpdateOf(updates, sid) ==
    updates[CHOOSE j \in 1..Len(updates) : updates[j].SessionID = sid]

\* the session fields a reconciliation or a claim may write
Written(s) == <<s.Status, s.Name, s.KittyWindowID>>

(* C1: in a single pass, in either mode, no two updates of the result carry
   the same non-zero KittyWindowID. *)
C1_ExclusiveClaims ==
    Computed =>
        \A j, k \in PassIdx :
            j # k /\ pass.out.updates[j].KittyWindowID # 0
                => pass.out.updates[j].KittyWindowID # pass.out.updates[k].KittyWindowID

(* C2: over any sequence of normal-mode passes and ClaimWindowID calls that
   starts from pairwise distinct non-zero window ids, no two session records
   hold the same non-zero KittyWindowID. *)
C2_UniqueHandles == DistinctWindowIDs(sessions)

(* C3: handling a computation's result never changes the Name of a session
   that is Renamed when the result is applied, also when the rename came
   after the computation read the sessions. *)
C3_NameLockedOnApply ==
    [][(\E k \in 1..MaxInFlight : HandleStatusRefreshed(k))
           => \A i \in 1..Len(sessions) :
                  sessions[i].Renamed => sessions'[i].Name = sessions[i].Name]_vars

(* C4: a session that is Renamed gets an update with an empty Name, in
   either mode, whatever tier matched it and whatever the window's title. *)
C4_NameLock ==
    Computed =>
        \A k \in PassIdx :
            pass.out.sorted[k].Renamed => pass.out.updates[k].Name = <<>>

\* a Renamed session is strongly matched to a window whose cleaned title is
\* a name other than the session's
C4_Witness ==
    /\ Computed
    /\ \E k \in PassIdx :
           /\ pass.out.sorted[k].Renamed
           /\ pass.out.detects[k].strongMatch
           /\ cleanClaudeTitle(pass.out.detects[k].tabTitle)
                  \notin {<<>>, pass.out.sorted[k].Name}

(* C5: in normal mode, a session matched only by the project path gets an
   update with an empty Name and with the KittyWindowID the session had
   stored, not the matched window's. *)
C5_WeakMatchKeeps ==
    pass.mode = "normal" =>
        \A k \in PassIdx :
            pass.out.detects[k].tier = 3
                => /\ pass.out.updates[k].Name = <<>>
                   /\ pass.out.updates[k].KittyWindowID = pass.out.sorted[k].KittyWindowID

\* in normal mode a session that is not Renamed is matched by path to a
\* window with another id than the stored one and a title that would rename it
C5_Witness ==
    /\ pass.mode = "normal"
    /\ \E k \in PassIdx :
           /\ pass.out.detects[k].tier = 3
           /\ ~pass.out.sorted[k].Renamed
           /\ pass.out.detects[k].windowID # pass.out.sorted[k].KittyWindowID
           /\ cleanClaudeTitle(pass.out.detects[k].tabTitle)
                  \notin {<<>>, pass.out.sorted[k].Name}

\* session i has no update in the applied list and its stored window id is
\* the one an update of another session id carries
StaleAt(i) ==
    /\ ~HasUpdate(call.updates, before[i].ClaudeSessionID)
    /\ before[i].KittyWindowID # 0
    /\ \E j \in 1..Len(call.updates) :
           /\ call.updates[j].KittyWindowID = before[i].KittyWindowID
           /\ call.updates[j].SessionID # before[i].ClaudeSessionID

(* C6: ApplyStatusUpdates leaves a session that has no update, and whose
   non-zero KittyWindowID an update of another session id carries, with
   KittyWindowID 0, and returns changed and needsSave; every session whose
   update carries that id ends holding it. *)
C6_StaleCleared ==
    pc = "applied" =>
        \A i \in 1..Len(sessions) :
            StaleAt(i) =>
                /\ sessions[i].KittyWindowID = 0
                /\ call.changed
                /\ call.needsSave
                /\ \A m \in 1..Len(sessions) :
                       (/\ HasUpdate(call.updates, before[m].ClaudeSessionID)
                        /\ UpdateOf(call.updates, before[m].ClaudeSessionID).KittyWindowID
                               = before[i].KittyWindowID)
                           => sessions[m].KittyWindowID = before[i].KittyWindowID

\* a session without an update held the id that the update of another
\* session of the list claims, and that session did not hold it before
C6_Witness ==
    /\ pc = "applied"
    /\ \E i, m \in 1..Len(sessions) :
           /\ StaleAt(i)
           /\ HasUpdate(call.updates, before[m].ClaudeSessionID)
           /\ UpdateOf(call.updates, before[m].ClaudeSessionID).KittyWindowID
                  = before[i].KittyWindowID
           /\ before[m].KittyWindowID # before[i].KittyWindowID

(* C7: after ClaimWindowID with a window id h > 0 the claiming session holds
   h, every other session that held h holds 0, every other session is as
   before, no other field is written, and the result is true exactly when
   another session held h. *)
C7_Claim ==
    (pc = "claimed" /\ call.windowID > 0) =>
        /\ sessions[call.claiming] = [before[call.claiming] EXCEPT !.KittyWindowID = call.windowID]
        /\ \A i \in 1..Len(sessions) :
               i # call.claiming =>
                   sessions[i] = IF before[i].KittyWindowID = call.windowID
                                 THEN [before[i] EXCEPT !.KittyWindowID = 0]
                                 ELSE before[i]
        /\ call.modified
               <=> \E i \in 1..Len(sessions) :
                       i # call.claiming /\ before[i].KittyWindowID = call.windowID

\* the claiming session and two others all held the claimed id
C7_Witness ==
    /\ pc = "claimed"
    /\ call.windowID > 0
    /\ before[call.claiming].KittyWindowID = call.windowID
    /\ Cardinality({i \in 1..Len(sessions) : before[i].KittyWindowID = call.windowID}) >= 3
    /\ call.modified

\* only the claiming session held the claimed id
C7_WitnessOwn ==
    /\ pc = "claimed"
    /\ call.windowID > 0
    /\ {i \in 1..Len(sessions) : before[i].KittyWindowID = call.windowID} = {call.claiming}
    /\ ~call.modified

(* C8: ClaimWindowID with a window id <= 0 returns false and leaves every
   session, the claiming one included, as it was. *)
C8_ClaimInvalid ==
    (pc = "claimed" /\ call.windowID <= 0) =>
        /\ ~call.modified
        /\ sessions = before

\* window id 0 is claimed by a session that holds an id while another
\* session holds none
C8_Witness ==
    /\ pc = "claimed"
    /\ call.windowID = 0
    /\ before[call.claiming].KittyWindowID > 0
    /\ \E i \in 1..Len(sessions) : i # call.claiming /\ before[i].KittyWindowID = 0

(* C9: for a session with an update, ApplyStatusUpdates sets Status to the
   update's, Name to the update's unless that is empty, KittyWindowID to the
   update's; changed is true iff a Status, Name or KittyWindowID of some
   session was modified and needsSave iff a Name or KittyWindowID was. *)
C9_Apply ==
    pc = "applied" =>
        /\ \A i \in 1..Len(sessions) :
               HasUpdate(call.updates, before[i].ClaudeSessionID) =>
                   LET u == UpdateOf(call.updates, before[i].ClaudeSessionID)
                   IN  sessions[i] =
                           [before[i] EXCEPT !.Status = u.Status,
                                             !.Name = IF u.Name # <<>> THEN u.Name ELSE @,
                                             !.KittyWindowID = u.KittyWindowID]
        /\ call.changed <=> \E i \in 1..Len(sessions) : Written(sessions[i]) # Written(before[i])
        /\ call.needsSave
               <=> \E i \in 1..Len(sessions) :
                       \/ sessions[i].Name # before[i].Name
                       \/ sessions[i].KittyWindowID # before[i].KittyWindowID

\* only a Status was modified, for a session whose update has an empty Name:
\* changed without needsSave
C9_Witness ==
    /\ pc = "applied"
    /\ call.changed
    /\ ~call.needsSave
    /\ \E i \in 1..Len(sessions) :
           /\ HasUpdate(call.updates, before[i].ClaudeSessionID)
           /\ UpdateOf(call.updates, before[i].ClaudeSessionID).Name = <<>>
           /\ sessions[i].Status # before[i].Status

\* every session has an update that equals its Status and KittyWindowID and
\* has an empty Name
UpdatesEqualSessions ==
    \A i \in 1..Len(before) :
        /\ HasUpdate(call.updates, before[i].ClaudeSessionID)
        /\ LET u == UpdateOf(call.updates, before[i].ClaudeSessionID)
           IN  /\ u.Status = before[i].Status
               /\ u.KittyWindowID = before[i].KittyWindowID
               /\ u.Name = <<>>

(* C10: applying the same update list a second time returns (false, false)
   and modifies no session; so does applying a list whose updates equal the
   sessions' Status and KittyWindowID and have empty Names. *)
C10_Idempotent ==
    /\ pc = "reapplied" => (~call.changed /\ ~call.needsSave /\ sessions = before)
    /\ (pc = "applied" /\ UpdatesEqualSessions)
           => (~call.changed /\ ~call.needsSave /\ sessions = before)

\* the second application follows a first one that renamed a session, moved
\* a window id and cleared a stale one
C10_Witness ==
    /\ pc = "reapplied"
    /\ \E i, j \in 1..Len(sessions) :
           /\ i # j
           /\ HasUpdate(call.updates, sessions[i].ClaudeSessionID)
           /\ UpdateOf(call.updates, sessions[i].ClaudeSessionID).Name = NameT
           /\ UpdateOf(call.updates, sessions[i].ClaudeSessionID).KittyWindowID > 0
           /\ ~HasUpdate(call.updates, sessions[j].ClaudeSessionID)
           /\ sessions[j].KittyWindowID = 0
           /\ sessions[j].KittyWindowID # pass.read[j].KittyWindowID

\* the title kitty lists for the window with this id begins with a braille
\* pattern (Title, or TabTitle when Title is empty)
ListedBusy(windowID) ==
    \E j \in 1..Len(kittyLs) :
        /\ kittyLs[j].ID = windowID
        /\ LET title == IF kittyLs[j].Title # <<>> THEN kittyLs[j].Title
                         ELSE kittyLs[j].TabTitle
           IN  title # <<>> /\ title[1] >= BrailleFirst /\ title[1] <= BrailleLast

(* C11: a session the matcher matches to a window, by any tier, is Running
   when the listed title of that window begins with a spinner code point
   and Waiting otherwise, never Idle; a session no tier matches gets Idle,
   an empty title, window id 0 and no strong match. *)
C11_StatusOfMatch ==
    Computed =>
        \A k \in PassIdx :
            LET d == pass.out.detects[k]
            IN  IF d.tier = 0
                THEN /\ d.status = StatusIdle
                     /\ d.tabTitle = <<>>
                     /\ d.windowID = 0
                     /\ ~d.strongMatch
                ELSE /\ \E j \in 1..Len(kittyLs) : kittyLs[j].ID = d.windowID
                     /\ d.status = IF ListedBusy(d.windowID) THEN StatusRunning
                                    ELSE StatusWaiting

\* a pass in which one session is matched to a window that shows no spinner
\* and gets Waiting, and another session is matched by no tier
C11_Witness ==
    /\ Computed
    /\ \E j, k \in PassIdx :
           /\ pass.out.detects[j].tier # 0
           /\ ~ListedBusy(pass.out.detects[j].windowID)
           /\ pass.out.detects[j].status = StatusWaiting
           /\ pass.out.detects[k].tier = 0

\* the window the session has stored is listed and runs claude resumed for
\* another session id
StoredWindowRepurposed(s) ==
    /\ s.KittyWindowID > 0
    /\ \E j \in 1..Len(kittyLs) :
           /\ kittyLs[j].ID = s.KittyWindowID
           /\ ResumeSessionID(kittyLs[j].Cmdline) \notin {<<>>, s.ClaudeSessionID}

(* C12: a session whose stored window now runs claude resumed for another
   session id, and which no tier matches to any window, gets an update with
   Status Idle and KittyWindowID 0. *)
C12_RepurposedWindowDropped ==
    Computed =>
        \A k \in PassIdx :
            StoredWindowRepurposed(pass.out.sorted[k]) /\ pass.out.detects[k].tier = 0
                => /\ pass.out.updates[k].Status = StatusIdle
                   /\ pass.out.updates[k].KittyWindowID = 0

\* the listed windows without a --resume id whose cwd is the path or below it
WindowsAtPath(path) ==
    {j \in 1..Len(kittyLs) :
        /\ ResumeSessionID(kittyLs[j].Cmdline) = <<>>
        /\ (kittyLs[j].Cwd = path \/ HasPrefix(kittyLs[j].Cwd, path \o Slash))}

\* the pass read sessions that share one project path and have no stored
\* window, while kitty lists exactly one window without a --resume id at
\* that path and no window resumed for any of them
SharedPathOneWindow ==
    /\ Computed
    /\ pc = "applied"
    /\ \A i \in 1..Len(pass.read) :
           /\ pass.read[i].KittyWindowID = 0
           /\ pass.read[i].ProjectPath = pass.read[1].ProjectPath
           /\ \A j \in 1..Len(kittyLs) :
                  ResumeSessionID(kittyLs[j].Cmdline) # pass.read[i].ClaudeSessionID
    /\ Cardinality(WindowsAtPath(pass.read[1].ProjectPath)) = 1

\* session i is the most recently active one of the pass
MostRecent(i) ==
    \A j \in 1..Len(pass.read) : j # i => mtimeOf(pass.read[i]) > mtimeOf(pass.read[j])

(* C13: when the sessions share a project path, none has a stored window
   and exactly one window without a --resume id is at that path, then after
   the pass the most recently active session is not Idle and every other
   session is Idle. *)
C13_MostRecentTakesWindow ==
    SharedPathOneWindow =>
        \A i \in 1..Len(sessions) :
            MostRecent(i)
                => /\ sessions[i].Status # StatusIdle
                   /\ \A j \in 1..Len(sessions) : j # i => sessions[j].Status = StatusIdle

\* the case with the most recently active session last in the list and the
\* other sessions with a transcript too
C13_Witness ==
    /\ SharedPathOneWindow
    /\ MostRecent(Len(sessions))
    /\ \A j \in 1..Len(sessions) : pass.read[j].JSONLPath # <<>> /\ pass.read[j].ModTime > 0

\* matchedWindows as the matcher found it when it processed position k
ClaimedBefore(k) == IF k = 1 THEN {} ELSE pass.out.detects[k - 1].matchedWindows

(* C14: within one pass the matcher returns no non-zero window id for two
   sessions; a match adds exactly its window id to the claimed set, a miss
   leaves the set as it was, and no match is to a window id already in the
   set. *)
C14_MatcherExclusive ==
    Computed =>
        /\ \A j, k \in PassIdx :
               j # k /\ pass.out.detects[j].windowID # 0
                   => pass.out.detects[j].windowID # pass.out.detects[k].windowID
        /\ \A k \in PassIdx :
               LET d == pass.out.detects[k]
               IN  IF d.windowID # 0
                   THEN /\ d.windowID \notin ClaimedBefore(k)
                        /\ d.matchedWindows = ClaimedBefore(k) \cup {d.windowID}
                   ELSE d.matchedWindows = ClaimedBefore(k)

\* a session's stored window was taken, by a path match, by a session
\* processed before it
C14_Witness ==
    /\ Computed
    /\ \E j, k \in PassIdx :
           /\ j < k
           /\ pass.out.detects[j].tier = 3
           /\ pass.out.sorted[k].KittyWindowID = pass.out.detects[j].windowID
           /\ pass.out.detects[k].windowID # 0

(* C15: when kitty cannot be queried, which the provider turns into an
   empty window list, the pass completes and every update has Status Idle
   and an empty Name. *)
C15_ProviderUnavailable ==
    Computed /\ kittyLs = <<>> =>
        /\ Len(pass.out.updates) = Len(pass.read)
        /\ pass.out.activeWindowIDs = {}
        /\ \A k \in PassIdx :
               /\ pass.out.updates[k].Status = StatusIdle
               /\ pass.out.updates[k].Name = <<>>

\* such a pass over sessions that have a stored window and a transcript
C15_Witness ==
    /\ Computed
    /\ kittyLs = <<>>
    /\ \A i \in 1..Len(pass.read) :
           pass.read[i].KittyWindowID > 0 /\ pass.read[i].JSONLPath # <<>>

(* C16: cleaning a title that was already cleaned returns it unchanged,
   for every title. *)
C16_CleanIdempotent ==
    pc = "recleaned" => call.again = call.clean

\* the spinner frames the source names: U+2801 .. U+2804, U+2806, U+2807
SpinnerFrames == {10241, 10242, 10243, 10244, 10246, 10247}

\* a title was classified
Classified == pc = "classified"

(* C17 as stated: a title whose first code point is neither the unsaved
   marker nor one of the spinner frames, a braille pattern that is no
   spinner frame included, has no indicator and is not busy. *)
C17_OnlySpinnerFrames ==
    Classified /\ call.title # <<>>
               /\ call.title[1] \notin SpinnerFrames \cup {UnsavedRune}
        => ~call.indicator /\ ~call.spinner

(* C17: the classification looks at the first code point only: the empty
   title has no indicator; the unsaved marker is an indicator and not busy;
   every braille pattern U+2800 .. U+283F is an indicator and busy; every
   other first code point is no indicator and not busy. *)
C17_Classification ==
    Classified =>
        IF call.title = <<>> THEN ~call.indicator /\ ~call.spinner
        ELSE IF call.title[1] = UnsavedRune THEN call.indicator /\ ~call.spinner
        ELSE IF call.title[1] >= BrailleFirst /\ call.title[1] <= BrailleLast
             THEN call.indicator /\ call.spinner
        ELSE ~call.indicator /\ ~call.spinner

\* a classified title that begins with a braille pattern that is no spinner
\* frame and goes on with an indicator
C17_Witness ==
    /\ Classified
    /\ Len(call.title) >= 2
    /\ call.title[1] \in {BrailleFirst, BrailleLast}
    /\ call.title[2] = UnsavedRune

(* C18: the computation of a pass, in either mode, leaves the session
   records as they were: every field of every session, and their order. *)
C18_ComputeReadsOnly ==
    pc = "computed" => sessions = before /\ sessions = pass.read

\* a computed pass that processed the sessions in another order than the
\* list's and reports changes
C18_Witness ==
    /\ pc = "computed"
    /\ pass.out.sorted # sessions
    /\ pass.out.anyChanged
    /\ pass.out.namesChanged

(* C19: ApplyStatusUpdates runs on the event loop only; in particular the
   one inside RefreshStatusesAggressive at startup does not run in a
   command while the loop handles messages that read or write the sessions. *)
C19_ApplyOnLoopOnly ==
    call.op = "ApplyStatusUpdates" /\ call.task = "command"
        => call.handledMeanwhile = 0

(* C20: with the listing and the transcript times fixed, the pass that
   follows a Compute -> Apply pass in the same mode reports anyChanged and
   namesChanged false, and applying its updates returns (false, false) and
   changes no session. *)
C20_FixpointInOnePass ==
    /\ pc \in {"recomputed", "reapplied"}
           => ~pass.out.anyChanged /\ ~pass.out.namesChanged
    /\ pc = "reapplied"
           => ~call.changed /\ ~call.needsSave /\ sessions = before

\* the second pass was applied after a first pass that had renamed a
\* session and stored a window id for it
C20_Witness ==
    /\ pc = "reapplied"
    /\ \E k \in PassIdx :
           /\ pass.out.sorted[k].Name = NameT
           /\ pass.out.sorted[k].KittyWindowID # 0
           /\ pass.out.detects[k].tier = 1

\* what is outstanding of the periodic reconciliation: ticks pending,
\* computations in flight, results awaiting handling
Outstanding == ticks + running + Len(msgs)

(* C21: once the sessions have loaded, exactly one of a pending status
   tick, a computation in flight and a result awaiting handling is
   outstanding at every moment, and the cycle never stops: a tick and a
   result come again and again, also after results without changes. *)
C21_TickLoop ==
    /\ [](pc = "loaded" => Outstanding = 1)
    /\ [](pc = "loaded" => <>(ticks = 1))
    /\ [](pc = "loaded" => <>(Len(msgs) = 1))

\* a result without changes was handled and the next tick is pending
C21_Witness ==
    /\ pc = "loaded"
    /\ call.op = "statusRefreshedMsg"
    /\ ~call.applied
    /\ ticks = 1

(* C22: after RenameSession(id, name) on a tracked session the session's
   Name is name, and its Renamed flag is TRUE when name is non-empty and
   FALSE when name is empty. *)
C22_RenameFlag ==
    call.op = "RenameSession" /\ call.i \in SessionIdx =>
        /\ sessions[call.i].Name = call.name
        /\ sessions[call.i].Renamed = (call.name # <<>>)

\* the stored session at k of the merge's input was not discovered
Undiscovered(k) ==
    \A j \in 1..Len(call.discovered) :
        mergeKey(call.discovered[j]) # mergeKey(call.stored[k])

\* the merged result holds the stored session at k of the merge's input
KeptByMerge(k) ==
    \E i \in 1..Len(sessions) : mergeKey(sessions[i]) = mergeKey(call.stored[k])

(* C23: MergeSessions keeps a stored session that was not discovered
   exactly when its KittyWindowID is non-zero, and every session kept this
   way has Status Waiting. *)
C23_PendingKept ==
    call.op = "MergeSessions" =>
        \A k \in 1..Len(call.stored) : Undiscovered(k) =>
            /\ KeptByMerge(k) <=> call.stored[k].KittyWindowID # 0
            /\ \A i \in 1..Len(sessions) :
                   mergeKey(sessions[i]) = mergeKey(call.stored[k]) =>
                       sessions[i].Status = StatusWaiting

\* the window snapshot of the call, and the positions in it of the windows
\* not matched before the call
Snapshot == getKittyActiveSessions(kittyLs)
Unclaimed == {k \in 1..Len(Snapshot) : Snapshot[k].windowID \notin call.matchedWindows}

\* the positions of the window the session has stored
StoredAt == {k \in 1..Len(Snapshot) : Snapshot[k].windowID = sessions[1].KittyWindowID}

\* the positions of the unclaimed windows that carry the session's id
ResumedAt ==
    {k \in Unclaimed : Snapshot[k].sessionID = sessions[1].ClaudeSessionID}

\* the positions of the unclaimed windows without a session id that are at
\* the session's project path or below it
AtPath ==
    {k \in Unclaimed :
        /\ Snapshot[k].sessionID = <<>>
        /\ \/ Snapshot[k].projectPath = sessions[1].ProjectPath
           \/ /\ Len(Snapshot[k].projectPath) > Len(sessions[1].ProjectPath) + 1
              /\ SubSeq(Snapshot[k].projectPath, 1, Len(sessions[1].ProjectPath) + 1)
                     = sessions[1].ProjectPath \o Slash}

(* C24: for a session with a non-zero stored handle whose window is open:
   when the window is not yet claimed and carries no session id or the
   session's own, the session is matched to it, strongly, by the first
   tier, and the handle is added to the claimed set; when the window is
   claimed or carries another session id, the session is not matched to it,
   the window's claim is as before, and the later tiers decide. *)
C24_StoredHandleTier ==
    pass.mode = "match" /\ sessions[1].KittyWindowID # 0 =>
        \A k \in StoredAt :
            LET d == pass.out
                h == Snapshot[k].windowID
            IN  IF k \in Unclaimed /\ Snapshot[k].sessionID \in {<<>>, sessions[1].ClaudeSessionID}
                THEN /\ d.tier = 1
                     /\ d.windowID = h
                     /\ d.strongMatch
                     /\ d.matchedWindows = call.matchedWindows \cup {h}
                ELSE /\ d.tier # 1
                     /\ d.windowID # h
                     /\ h \in d.matchedWindows <=> h \in call.matchedWindows
                     /\ d.tier = 2 <=> ResumedAt # {}
                     /\ d.tier = 3 => AtPath # {} /\ d.windowID = Snapshot[Min(AtPath)].windowID

\* the stored window carries another session's id, and the session is
\* matched to another window by its own id
C24_Witness ==
    /\ pass.mode = "match"
    /\ \E k \in StoredAt :
           /\ k \in Unclaimed
           /\ Snapshot[k].sessionID \notin {<<>>, sessions[1].ClaudeSessionID}
    /\ pass.out.tier = 2

\* the stored window is open and free, and the first tier takes it
C24_WitnessMatch ==
    /\ pass.mode = "match"
    /\ StoredAt \cap Unclaimed # {}
    /\ pass.out.tier = 1

(* C25: when the first tier did not match, the session is matched,
   strongly, to the first window of the snapshot that is unclaimed and
   carries the session's id; claimed windows with that id are passed over;
   without such a window the second tier does not match. *)
C25_ResumeTier ==
    pass.mode = "match" /\ pass.out.tier # 1 =>
        IF ResumedAt # {}
        THEN /\ pass.out.tier = 2
             /\ pass.out.strongMatch
             /\ pass.out.windowID = Snapshot[Min(ResumedAt)].windowID
             /\ pass.out.matchedWindows
                    = call.matchedWindows \cup {Snapshot[Min(ResumedAt)].windowID}
        ELSE pass.out.tier # 2

\* the first window with the session's id is claimed, and the session is
\* matched to a later one
C25_Witness ==
    /\ pass.mode = "match"
    /\ pass.out.tier = 2
    /\ \E j \in 1..Len(Snapshot) :
           /\ j < Min(ResumedAt)
           /\ Snapshot[j].sessionID = sessions[1].ClaudeSessionID
           /\ Snapshot[j].windowID \in call.matchedWindows

(* C26 as stated: any session the first two tiers did not match, with or
   without a transcript path, is matched weakly to the first unclaimed
   window of the snapshot without a session id at or below its project
   path, and to no window when there is none. *)
C26_PathTierAnySession ==
    pass.mode = "match" /\ pass.out.tier \notin {1, 2} =>
        IF AtPath # {}
        THEN /\ pass.out.tier = 3
             /\ ~pass.out.strongMatch
             /\ pass.out.windowID = Snapshot[Min(AtPath)].windowID
        ELSE pass.out.tier = 0

(* C26, amended: a session with a transcript path that the first two tiers
   did not match is matched weakly to the first unclaimed window of the
   snapshot that has no session id and whose directory is the session's
   project path or below it ("/pq" is not below "/p"); that window is
   added to the claimed set; a session without a transcript path, or with
   no such window, is matched to no window. *)
C26_PathTier ==
    pass.mode = "match" /\ pass.out.tier \notin {1, 2} =>
        IF sessions[1].JSONLPath # <<>> /\ AtPath # {}
        THEN /\ pass.out.tier = 3
             /\ ~pass.out.strongMatch
             /\ pass.out.windowID = Snapshot[Min(AtPath)].windowID
             /\ pass.out.matchedWindows
                    = call.matchedWindows \cup {Snapshot[Min(AtPath)].windowID}
        ELSE /\ pass.out.tier = 0
             /\ pass.out.windowID = 0
             /\ pass.out.matchedWindows = call.matchedWindows

\* the session is matched to a window in "/p/s", after an unclaimed window
\* in "/pq" without a session id that comes first in the snapshot
C26_Witness ==
    /\ pass.mode = "match"
    /\ pass.out.tier = 3
    /\ Snapshot[Min(AtPath)].projectPath = PathPS
    /\ \E j \in Unclaimed :
           /\ j < Min(AtPath)
           /\ Snapshot[j].sessionID = <<>>
           /\ Snapshot[j].projectPath = PathPQ

\* the title kitty lists for the window, cleaned; empty for a window that
\* is not listed
ListedCleanTitle(windowID) ==
    LET at == {j \in 1..Len(kittyLs) : kittyLs[j].ID = windowID}
    IN  IF at = {} THEN <<>>
        ELSE LET win == kittyLs[CHOOSE j \in at : TRUE]
             IN  cleanClaudeTitle(IF win.Title # <<>> THEN win.Title ELSE win.TabTitle)

\* position k of the pass is a match that may rename: strong, or any match
\* in aggressive mode
MayRename(k) ==
    \/ pass.out.detects[k].strongMatch
    \/ pass.mode = "aggressive" /\ pass.out.detects[k].tier # 0

(* C27: an update carries a name exactly when the session was matched
   strongly (or matched at all in aggressive mode), the cleaned title of
   the matched window is non-empty and differs from the session's Name, and
   the session is not Renamed; the name is then the cleaned title, and is
   empty in every other case. *)
C27_RenameCandidate ==
    Computed =>
        \A k \in PassIdx :
            LET s == pass.out.sorted[k]
                title == ListedCleanTitle(pass.out.detects[k].windowID)
            IN  pass.out.updates[k].Name =
                    IF MayRename(k) /\ title # <<>> /\ title # s.Name /\ ~s.Renamed
                    THEN title ELSE <<>>

\* a normal pass with a rename from a strong match, a strong match whose
\* cleaned title is the session's Name already, or a weak match whose
\* title would rename
C27_Witness ==
    /\ pass.mode = "normal"
    /\ \E k \in PassIdx :
           /\ pass.out.detects[k].strongMatch
           /\ pass.out.updates[k].Name = NameT
    /\ \E k \in PassIdx :
           /\ pass.out.detects[k].tier # 0
           /\ ~pass.out.sorted[k].Renamed
           /\ pass.out.updates[k].Name = <<>>

(* C28: for a strong match the update's KittyWindowID is the matched
   window's id; for a weak match it is the session's stored id in normal
   mode and the matched window's id in aggressive mode. *)
C28_HandlePropagation ==
    Computed =>
        \A k \in PassIdx :
            LET d == pass.out.detects[k]
            IN  d.tier # 0 =>
                    pass.out.updates[k].KittyWindowID =
                        IF d.strongMatch \/ pass.mode = "aggressive" THEN d.windowID
                        ELSE pass.out.sorted[k].KittyWindowID

\* an aggressive pass in which a weak match brings a new window id and a
\* rename, beside a strong match to a window that was not the stored one
C28_Witness ==
    /\ pass.mode = "aggressive"
    /\ \E k \in PassIdx :
           /\ pass.out.detects[k].tier = 3
           /\ pass.out.updates[k].KittyWindowID = pass.out.detects[k].windowID
           /\ pass.out.updates[k].KittyWindowID # pass.out.sorted[k].KittyWindowID
           /\ pass.out.updates[k].Name # <<>>
    /\ \E k \in PassIdx :
           /\ pass.out.detects[k].tier = 2
           /\ pass.out.updates[k].KittyWindowID # pass.out.sorted[k].KittyWindowID

(* C30: namesChanged is TRUE exactly when some update of the pass has a
   non-empty Name; anyChanged is TRUE exactly when for some session the
   computed status differs from the stored one, or the match was strong or
   the mode aggressive and the update's window id differs from the stored
   one, or the update has a Name; so namesChanged implies anyChanged. *)
C30_ChangeFlags ==
    Computed =>
        /\ pass.out.namesChanged <=> \E k \in PassIdx : pass.out.updates[k].Name # <<>>
        /\ pass.out.anyChanged <=>
               \E k \in PassIdx :
                   \/ pass.out.updates[k].Status # pass.out.sorted[k].Status
                   \/ /\ pass.out.detects[k].strongMatch \/ pass.mode = "aggressive"
                      /\ pass.out.updates[k].KittyWindowID # pass.out.sorted[k].KittyWindowID
                   \/ pass.out.updates[k].Name # <<>>
        /\ pass.out.namesChanged => pass.out.anyChanged

\* an aggressive pass whose only change is a window id: no status differs
\* and no update has a name
C30_Witness ==
    /\ pass.mode = "aggressive"
    /\ pass.out.anyChanged
    /\ ~pass.out.namesChanged
    /\ \A k \in PassIdx : pass.out.updates[k].Status = pass.out.sorted[k].Status

\* the session has an activity signal: a transcript that can be read
HasSignal(s) == s.JSONLPath # <<>> /\ s.ModTime > 0

(* C29: the sessions are processed in non-increasing order of transcript
   modification time, every session without a signal (no transcript path,
   or a transcript that cannot be read) after all sessions with one, and
   the processing order is a permutation of the sessions given. *)
C29_ProcessingOrder ==
    pass.mode = "sort" =>
        LET sorted == pass.out.sorted
        IN  /\ Len(sorted) = Len(sessions)
            /\ \A i \in 1..Len(sessions) :
                   Cardinality({k \in 1..Len(sorted) : sorted[k] = sessions[i]}) = 1
            /\ \A j, k \in 1..Len(sorted) :
                   j < k => mtimeOf(sorted[j]) >= mtimeOf(sorted[k])
            /\ \A j, k \in 1..Len(sorted) :
                   HasSignal(sorted[j]) /\ ~HasSignal(sorted[k]) => j < k

\* sessions given oldest first, with one without a transcript path and one
\* with an unreadable transcript before two with readable ones
C29_Witness ==
    /\ pass.mode = "sort"
    /\ Len(sessions) = MaxSorted
    /\ sessions[1].JSONLPath = <<>>
    /\ sessions[2].JSONLPath # <<>> /\ sessions[2].ModTime = 0
    /\ HasSignal(sessions[3])
    /\ sessions[4].ModTime > sessions[3].ModTime
    /\ pass.out.sorted[1] = sessions[4]

(* C31: when the updates of a pass are applied to the sessions the pass
   read, ApplyStatusUpdates returns changed = FALSE exactly when the pass
   reported anyChanged = FALSE, and then it leaves every session as it
   was. *)
C31_SkipIsSafe ==
    pc \in {"applied", "reapplied"} =>
        /\ call.changed <=> pass.out.anyChanged
        /\ ~pass.out.anyChanged => sessions = before

\* a second pass that reports no changes although a session is matched to
\* a window, weakly, that is not the one it has stored
C31_Witness ==
    /\ pc = "reapplied"
    /\ ~pass.out.anyChanged
    /\ ~call.changed
    /\ \E k \in PassIdx :
           /\ pass.out.detects[k].tier = 3
           /\ pass.out.detects[k].windowID # pass.out.sorted[k].KittyWindowID

(* C32: when handleOpen has bound a window to a session with
   ClaimWindowID, a window that was not yet open when the computation in
   flight took its snapshot, and the result of that computation is handled
   afterwards, the session's KittyWindowID is still the window claimed. *)
C32_ClaimSurvives ==
    [][(/\ call.op = "handleOpen"
        /\ \A k \in 1..Len(msgs) : call.windowID \notin msgs[k].activeWindowIDs
        /\ \E k \in 1..MaxInFlight : HandleStatusRefreshed(k))
           => sessions'[call.i].KittyWindowID = call.windowID]_vars

\* the ids of the sessions of ss that are not placeholders, in order
TrackedIDs(ss) ==
    LET tracked == SelectSeqOf(ss, {i \in 1..Len(ss) : ~isPending(ss[i])}, 1)
    IN  [i \in 1..Len(tracked) |-> tracked[i].ClaudeSessionID]

\* the session with this id is in ss
Tracks(ss, sid) == \E i \in 1..Len(ss) : ss[i].ClaudeSessionID = sid

(* C33: handling a result removes a session only if it is a placeholder
   whose window is not among the open windows of the result; the sessions
   that are not placeholders all stay, in their order; and a placeholder
   created after the computation read the sessions (the result has no
   update for it) stays too, with its pending-rename state. *)
C33_PlaceholderKept ==
    [][\A k \in 1..MaxInFlight : HandleStatusRefreshed(k) =>
           /\ TrackedIDs(sessions') = TrackedIDs(sessions)
           /\ \A i \in 1..Len(sessions) :
                  ~Tracks(sessions', sessions[i].ClaudeSessionID)
                      => /\ isPending(sessions[i])
                         /\ sessions[i].KittyWindowID \notin msgs[k].activeWindowIDs
           /\ \A i \in 1..Len(sessions) :
                  isPending(sessions[i])
                  /\ ~HasUpdate(msgs[k].updates, sessions[i].ClaudeSessionID)
                      => /\ Tracks(sessions', sessions[i].ClaudeSessionID)
                         /\ pendingRename.WindowID = sessions[i].KittyWindowID
                                => pendingRename' = pendingRename]_vars

\* the part of C33 on removal: only placeholders whose window is not among
\* the open windows of the result go, the other sessions keep their order
C33_OnlyPlaceholdersGo ==
    [][\A k \in 1..MaxInFlight : HandleStatusRefreshed(k) =>
           /\ TrackedIDs(sessions') = TrackedIDs(sessions)
           /\ \A i \in 1..Len(sessions) :
                  ~Tracks(sessions', sessions[i].ClaudeSessionID)
                      => /\ isPending(sessions[i])
                         /\ sessions[i].KittyWindowID \notin msgs[k].activeWindowIDs]_vars

\* the session id in the command line of the listed window (empty: none,
\* or no such window)
ListedSessionID(windowID) ==
    LET at == {j \in 1..Len(kittyLs) : kittyLs[j].ID = windowID}
    IN  IF at = {} THEN <<>>
        ELSE ResumeSessionID(kittyLs[CHOOSE j \in at : TRUE].Cmdline)

(* C34: in a pass of either mode, the window a session is matched to, by
   whatever tier, carries no session id or the session's own: a window
   that carries the id of another session is never the match. *)
C34_ForeignWindowNeverMatched ==
    Computed =>
        \A k \in PassIdx :
            pass.out.detects[k].windowID # 0 =>
                ListedSessionID(pass.out.detects[k].windowID)
                    \in {<<>>, pass.out.sorted[k].ClaudeSessionID}

\* a session has stored a window that carries another session's id, it is
\* in the session's directory and not yet claimed when the session is
\* processed, and the session is matched by its path to another window
C34_Witness ==
    /\ Computed
    /\ \E k \in PassIdx :
           /\ StoredWindowRepurposed(pass.out.sorted[k])
           /\ pass.out.sorted[k].KittyWindowID \notin ClaimedBefore(k)
           /\ pass.out.detects[k].tier = 3

\* kitty lists a claude window whose command line carries the session id
ListedResumed(sid) ==
    \E j \in 1..Len(kittyLs) :
        isClaudeTab(kittyLs[j]) /\ ResumeSessionID(kittyLs[j].Cmdline) = sid

(* C35: a session whose id is carried by the command line of an open
   window gets a status other than Idle in the pass, wherever it comes in
   the processing order and whatever window id it has stored (the sessions
   have distinct ids). *)
C35_ResumedNeverIdle ==
    Computed =>
        \A k \in PassIdx :
            ListedResumed(pass.out.sorted[k].ClaudeSessionID)
                => pass.out.updates[k].Status # StatusIdle

\* the session processed last has stored a window that a session before it
\* took by its path, and is found by its id in another window
C35_Witness ==
    /\ Computed
    /\ \E k \in PassIdx :
           /\ k = Len(pass.out.updates)
           /\ k > 1
           /\ pass.out.sorted[k].KittyWindowID \in ClaimedBefore(k)
           /\ ListedResumed(pass.out.sorted[k].ClaudeSessionID)
           /\ pass.out.detects[k].tier = 2

\* the windows of AtPath that kitty lists with a busy title
BusyAtPath == {Snapshot[k].windowID : k \in {j \in AtPath : ListedBusy(Snapshot[j].windowID)}}

(* C36: in the snapshot every window with a busy title comes before every
   window without one; so when the working-directory tier matches a
   session and exactly one of the unclaimed windows in its directory is
   busy, the session is matched to the busy one. *)
C36_BusyFirst ==
    pass.mode = "match" =>
        /\ \A j, k \in 1..Len(Snapshot) :
               j < k /\ ListedBusy(Snapshot[k].windowID) => ListedBusy(Snapshot[j].windowID)
        /\ pass.out.tier = 3 /\ Cardinality(AtPath) > 1 /\ Cardinality(BusyAtPath) = 1
               => pass.out.windowID \in BusyAtPath

\* kitty lists an idle window in the session's directory before a busy one,
\* both free, and the session is matched by its path to the busy one
C36_Witness ==
    /\ pass.mode = "match"
    /\ pass.out.tier = 3
    /\ Cardinality(AtPath) = 2
    /\ Len(kittyLs) = 2
    /\ ~ListedBusy(kittyLs[1].ID)
    /\ ListedBusy(kittyLs[2].ID)
    /\ pass.out.windowID = kittyLs[2].ID

\* a character of [0-9a-fA-F-]
HexOrHyphen(c) == c \in (48..57) \cup (97..102) \cup (65..70) \cup {45}

\* the positions of the command line of the window where "--resume " begins
FlagsAt ==
    {p \in 1..Len(kittyLs[1].Cmdline) :
        /\ p + 8 <= Len(kittyLs[1].Cmdline)
        /\ SubSeq(kittyLs[1].Cmdline, p, p + 8) = ResumeFlag}

(* C37: the session id of a window in the snapshot is the maximal run of
   characters of [0-9a-fA-F-] right after the first "--resume " of its
   command line; it is empty when the command line has no flag or the flag
   is followed by no such character. *)
C37_ExplicitSessionID ==
    pass.mode = "cmdline" =>
        LET cmdline == kittyLs[1].Cmdline
            id == pass.out[1].sessionID
        IN  /\ Len(pass.out) = 1
            /\ IF FlagsAt = {} THEN id = <<>>
               ELSE LET from == Min(FlagsAt) + 9
                    IN  /\ from + Len(id) - 1 <= Len(cmdline)
                        /\ id = SubSeq(cmdline, from, from + Len(id) - 1)
                        /\ \A i \in 1..Len(id) : HexOrHyphen(id[i])
                        /\ from + Len(id) <= Len(cmdline)
                               => ~HexOrHyphen(cmdline[from + Len(id)])

\* a command line with two flags: the id is the run after the first, which
\* ends at a character outside the set and has an upper-case digit
C37_Witness ==
    /\ pass.mode = "cmdline"
    /\ Cardinality(FlagsAt) = 2
    /\ Len(pass.out[1].sessionID) = 1
    /\ pass.out[1].sessionID[1] = 70

\* a command line whose first flag is followed by no character of the set
\* and whose second flag is: the id is empty
C37_WitnessEmpty ==
    /\ pass.mode = "cmdline"
    /\ Cardinality(FlagsAt) = 2
    /\ pass.out[1].sessionID = <<>>
    /\ kittyLs[1].Cmdline[Len(kittyLs[1].Cmdline)] = 97

\* the session at i of the merged result was in the storage before the merge
WasStored(i) ==
    \E k \in 1..Len(call.stored) : mergeKey(call.stored[k]) = mergeKey(sessions[i])

(* C38: in the result of MergeSessions every newly discovered session has
   an Order strictly lower than the Order of every session that was stored
   before. *)
C38_NewOnTop ==
    call.op = "MergeSessions" =>
        \A i, j \in 1..Len(sessions) :
            ~WasStored(i) /\ WasStored(j) => sessions[i].Order < sessions[j].Order

=============================================================================
